---- MODULE Spec2Model ----
(***************************************************************************)
(* A model of the job-portal Resource API (src/src/auth.py,                *)
(* src/src/routes.py), of its persistence contracts (src/src/models.py)    *)
(* and of the desktop client: its local facade                             *)
(* (src/src/gui/database_service.py), its HTTP facade                      *)
(* (src/src/gui/api_client.py) and its window (src/src/gui/main.py,        *)
(* auth_ui.py, dashboard_ui.py).                                           *)
(*                                                                         *)
(* Time is counted in whole hours.  A JSON body is a function from the     *)
(* field names it carries to their values; a field that is not in its      *)
(* DOMAIN is absent from the request.                                      *)
(***************************************************************************)
EXTENDS Integers, Sequences, FiniteSets, TLC

VARIABLES
  users,            \* rows of table users
  tasks,            \* rows of table tasks
  orders,           \* rows of table orders
  nextUserId,       \* next primary key of users
  nextTaskId,       \* next primary key of tasks
  nextOrderId,      \* next primary key of orders
  now,              \* the clock (datetime.utcnow), in hours
  issued,           \* tokens the server has signed and clients still hold
  inflight,         \* per worker thread: the register call suspended between its existence check and its insert
  current_user_id,  \* DatabaseService.current_user_id (0 is None)
  api_client,       \* APIClient: its token and user_id, and the call it is in the middle of
  gui,              \* the desktop window: its frame, its threads, its event queue
  req,              \* the request handled last, and the time it came at
  resp              \* its response

vars == <<users, tasks, orders, nextUserId, nextTaskId, nextOrderId, now,
          issued, inflight, current_user_id, api_client, gui, req, resp>>

store == <<users, tasks, orders, nextUserId, nextTaskId, nextOrderId>>

\* what lives in the desktop process: no request handler can reach it
desktop == <<api_client, gui>>

(***************************************************************************)
(* Bounds of the model.                                                    *)
(***************************************************************************)
MaxUsers == 2
MaxTicks == 3
TickHours == 12
MaxTokens == 1
MaxTasks == 1
MaxOrders == 1
MaxListed == 2
MaxThreads == 2

(***************************************************************************)
(* Program constants.                                                      *)
(***************************************************************************)
TOKEN_HOURS == 24
SECRET_KEY == "dev-secret-key"
DEFAULT_ROLE == "user"

(***************************************************************************)
(* Input domains.                                                          *)
(***************************************************************************)
Usernames == {"alice", "bob"}
Emails == {"a@x", "b@x"}
Passwords == {"pw1", "pw2"}
Salts == {"s1"}
Workers == {"w1", "w2"}

EmptyBody == [k \in {} |-> ""]

\* every JSON object over the given fields, each field absent or drawn from dom[field]
PartialBodies(fields, dom) ==
  UNION { { b \in [F -> UNION {dom[k] : k \in fields}] : \A k \in F : b[k] \in dom[k] } : F \in SUBSET fields }

\* the (username, email) pairs requests carry: two accounts, and one that shares
\* its username with the first and its email with the second
Identities == {<<"alice", "a@x">>, <<"bob", "b@x">>, <<"alice", "b@x">>}

RegisterBodies ==
  { b \in PartialBodies({"username", "email", "password"},
                        [username |-> Usernames, email |-> Emails, password |-> Passwords]) :
      {"username", "email"} \subseteq DOMAIN b => <<b.username, b.email>> \in Identities }

LoginBodies ==
  PartialBodies({"email", "password"}, [email |-> Emails, password |-> Passwords \cup {""}])

\* the two accounts the task and order endpoints are exercised with
Accounts ==
  { [username |-> "alice", email |-> "a@x", password |-> "pw1"],
    [username |-> "bob", email |-> "b@x", password |-> "pw2"] }

\* register requests of the resource endpoints' runs: every incomplete body, and the two accounts
AccountBodies ==
  { b \in RegisterBodies : DOMAIN b = {"username", "email", "password"} => b \in Accounts }

\* ids a request can name: those of rows that can exist (and, of tasks and orders, one that never does)
UserIds == 1..MaxUsers
TaskIds == 1..(MaxTasks + 1)
OrderIds == 1..(MaxOrders + 1)

\* a body made of a part with string values and a part with number values
Join(strings, numbers) == { a @@ b : a \in strings, b \in numbers }

TaskBodies ==
  Join(PartialBodies({"title", "status"}, [title |-> {"", "t1"}, status |-> {"done"}]),
       PartialBodies({"user_id"}, [user_id |-> UserIds]))

OrderBodies ==
  Join(PartialBodies({"product_name"}, [product_name |-> {"p1"}]),
       PartialBodies({"price", "user_id"}, [price |-> {0 - 1, 0, 5}, user_id |-> UserIds]))

\* the records the list endpoints are exercised with: they differ in their owner
ListedTaskBodies == {[title |-> "t1"] @@ b : b \in PartialBodies({"user_id"}, [user_id |-> UserIds])}
ListedOrderBodies == {[product_name |-> "p1"] @@ b : b \in Join({[price |-> 5]}, PartialBodies({"user_id"}, [user_id |-> UserIds]))}

(***************************************************************************)
(* Python helpers.                                                         *)
(***************************************************************************)
NoneStr == "None"

\* dict.get(key): the value, or None when the key is absent
Get(data, key) == IF key \in DOMAIN data THEN data[key] ELSE NoneStr

\* truthiness of an optional string: None and "" are falsy
Truthy(v) == v # NoneStr /\ v # ""

\* datetime.isoformat()
isoformat(t) == "T+" \o ToString(t) \o "h"

(***************************************************************************)
(* Credential service: werkzeug.security and PyJWT as the handlers use     *)
(* them.                                                                   *)
(***************************************************************************)
\* the salted one-way digest inside a credential
Digest(password, salt) == "H(" \o salt \o "," \o password \o ")"

generate_password_hash(password, salt) == "pbkdf2:sha256$" \o salt \o "$" \o Digest(password, salt)

\* recompute the digest with the credential's own salt and compare
check_password_hash(pwhash, password) ==
  \E salt \in Salts : pwhash = generate_password_hash(password, salt)

\* HS256 signature of a payload under a key
Sign(user_id, exp, key) == <<key, user_id, exp>>

\* _generate_token had the lifetime been timedelta(hours=12)
_generate_token_half_day(user_id) ==
  [user_id |-> user_id, exp |-> now + 12,
   sig |-> Sign(user_id, now + 12, SECRET_KEY)]

_generate_token(user_id) ==
  [user_id |-> user_id, exp |-> now + TOKEN_HOURS,
   sig |-> Sign(user_id, now + TOKEN_HOURS, SECRET_KEY)]

\* jwt_decode had the signature not been verified
jwt_decode_unverified(token, key, t) ==
  IF token.exp <= t THEN "ExpiredSignatureError" ELSE "ok"

\* jwt.decode: the signature is verified first, then the expiry
jwt_decode(token, key, t) ==
  IF token.sig # Sign(token.user_id, token.exp, key) THEN "InvalidTokenError"
  ELSE IF token.exp <= t THEN "ExpiredSignatureError"
  ELSE "ok"

(***************************************************************************)
(* Responses.                                                              *)
(***************************************************************************)
Resp(op, status, body) == [op |-> op, status |-> status, body |-> body]

\* jsonify({'msg': ...})
Msg(m) == [msg |-> m]

\* a handler that has not answered yet
Pending(op) == Resp(op, 0, Msg(""))

NoRequest == [at |-> 0, op |-> "none", data |-> EmptyBody]

\* a client keeps a token it is handed while it has room for one
Keep(token) == IF Cardinality(issued) < MaxTokens THEN issued \cup {token} ELSE issued

(***************************************************************************)
(* Persistence contracts of table users.                                   *)
(***************************************************************************)
\* users_unique_ok had the column email not been declared unique
users_unique_ok_username_only(username, email) ==
  \A u \in users : u.username # username

\* the unique constraints on username and on email, enforced at the insert
users_unique_ok(username, email) ==
  \A u \in users : u.username # username /\ u.email # email

\* the row an insert creates: server-assigned id, default role, creation time
new_user(username, email, password_hash) ==
  [id |-> nextUserId, username |-> username, email |-> email,
   password_hash |-> password_hash, role |-> DEFAULT_ROLE, created_at |-> now]

\* user_exists had the filter compared the username alone
user_exists_username_only(username, email) ==
  \E u \in users : u.username = username

\* User.query.filter((User.username == username) | (User.email == email)).first()
user_exists(username, email) ==
  \E u \in users : u.username = username \/ u.email = email

(***************************************************************************)
(* POST /auth/register                                                     *)
(***************************************************************************)
\* not all([username, email, password])
register_fields_missing(data) ==
  ~(Truthy(Get(data, "username")) /\ Truthy(Get(data, "email")) /\ Truthy(Get(data, "password")))

\* what register does before its first write: a rejection, or status 0 to go on
register_check(data) ==
  IF DOMAIN data = {} THEN Resp("register", 400, Msg("Missing JSON body"))
  ELSE IF register_fields_missing(data)
       THEN Resp("register", 400, Msg("username, email and password required"))
  ELSE IF user_exists(data.username, data.email)
       THEN Resp("register", 409, Msg("User already exists"))
  ELSE Pending("register")

\* register_commit had the password been stored as it came
register_commit_plaintext(data) ==
  LET user == new_user(data.username, data.email, data.password)
      token == _generate_token(user.id)
  IN IF users_unique_ok(data.username, data.email)
     THEN /\ users' = users \cup {user}
          /\ nextUserId' = nextUserId + 1
          /\ issued' = Keep(token)
          /\ resp' = Resp("register", 201, [token |-> token])
     ELSE /\ resp' = Resp("register", 500, Msg("Internal server error"))
          /\ UNCHANGED <<users, nextUserId, issued>>

\* hash, insert, commit, issue the token; a failed commit is the 500 handler's rollback
register_commit(data) ==
  \E salt \in Salts :
    LET user == new_user(data.username, data.email, generate_password_hash(data.password, salt))
        token == _generate_token(user.id)
    IN IF users_unique_ok(data.username, data.email)
       THEN /\ users' = users \cup {user}
            /\ nextUserId' = nextUserId + 1
            /\ issued' = Keep(token)
            /\ resp' = Resp("register", 201, [token |-> token])
       ELSE /\ resp' = Resp("register", 500, Msg("Internal server error"))
            /\ UNCHANGED <<users, nextUserId, issued>>

\* the handler run without interruption
register(data) ==
  /\ req' = [at |-> now, op |-> "register", data |-> data]
  /\ IF register_check(data).status # 0
     THEN /\ resp' = register_check(data)
          /\ UNCHANGED <<users, nextUserId, issued>>
     ELSE register_commit(data)
  /\ UNCHANGED <<tasks, orders, nextTaskId, nextOrderId, now, inflight, current_user_id>>

\* worker w runs the handler up to its existence check
register_begin(w, data) ==
  /\ inflight[w].via = "idle"
  /\ req' = [at |-> now, op |-> "register", data |-> data]
  /\ resp' = register_check(data)
  /\ IF register_check(data).status # 0
     THEN UNCHANGED inflight
     ELSE inflight' = [inflight EXCEPT ![w] = [via |-> "api", data |-> data]]
  /\ UNCHANGED <<store, now, issued, current_user_id>>

\* worker w resumes the handler at its insert
register_end(w) ==
  /\ inflight[w].via = "api"
  /\ req' = [at |-> now, op |-> "register", data |-> inflight[w].data]
  /\ register_commit(inflight[w].data)
  /\ inflight' = [inflight EXCEPT ![w] = [via |-> "idle", data |-> EmptyBody]]
  /\ UNCHANGED <<tasks, orders, nextTaskId, nextOrderId, now, current_user_id>>

(***************************************************************************)
(* DatabaseService.register                                                *)
(***************************************************************************)
\* a result tuple (bool, str) of the local facade
Result(op, ok, m) == Resp(op, 0, [ok |-> ok, msg |-> m])

ds_register_check(data) ==
  IF user_exists(data.username, data.email)
  THEN Result("ds_register", FALSE, "User already exists")
  ELSE Pending("ds_register")

ds_register_commit(data) ==
  \E salt \in Salts :
    LET new_user_ == new_user(data.username, data.email, generate_password_hash(data.password, salt))
    IN IF users_unique_ok(data.username, data.email)
       THEN /\ users' = users \cup {new_user_}
            /\ nextUserId' = nextUserId + 1
            /\ resp' = Result("ds_register", TRUE, "Registration successful")
       ELSE /\ resp' = Result("ds_register", FALSE, "Registration failed")
            /\ UNCHANGED <<users, nextUserId>>

\* the inputs the register form passes on: three non-empty strings
DsRegisterArgs ==
  { d \in [username : Usernames, email : Emails, password : Passwords] : <<d.username, d.email>> \in Identities }

ds_register(data) ==
  /\ req' = [at |-> now, op |-> "ds_register", data |-> data]
  /\ IF ds_register_check(data).status # 0
     THEN /\ resp' = ds_register_check(data)
          /\ UNCHANGED <<users, nextUserId>>
     ELSE ds_register_commit(data)
  /\ UNCHANGED <<tasks, orders, nextTaskId, nextOrderId, now, issued, inflight, current_user_id>>

\* the GUI thread of the call runs register up to its existence check
ds_register_begin(w, data) ==
  /\ inflight[w].via = "idle"
  /\ req' = [at |-> now, op |-> "ds_register", data |-> data]
  /\ resp' = ds_register_check(data)
  /\ IF ds_register_check(data).status # 0
     THEN UNCHANGED inflight
     ELSE inflight' = [inflight EXCEPT ![w] = [via |-> "local", data |-> data]]
  /\ UNCHANGED <<store, now, issued, current_user_id>>

\* and resumes it at its insert
ds_register_end(w) ==
  /\ inflight[w].via = "local"
  /\ req' = [at |-> now, op |-> "ds_register", data |-> inflight[w].data]
  /\ ds_register_commit(inflight[w].data)
  /\ inflight' = [inflight EXCEPT ![w] = [via |-> "idle", data |-> EmptyBody]]
  /\ UNCHANGED <<tasks, orders, nextTaskId, nextOrderId, now, issued, current_user_id>>

(***************************************************************************)
(* POST /auth/login                                                        *)
(***************************************************************************)
\* users_by_email had the query not been filtered
users_by_email_unfiltered(email) == users

\* User.query.filter_by(email=email).first(): the users holding the email (at most one)
users_by_email(email) == {u \in users : u.email = email}

\* not all([email, password])
login_fields_missing(data) == ~(Truthy(Get(data, "email")) /\ Truthy(Get(data, "password")))

login(data) ==
  /\ req' = [at |-> now, op |-> "login", data |-> data]
  /\ IF DOMAIN data = {}
     THEN /\ resp' = Resp("login", 400, Msg("Missing JSON body"))
          /\ UNCHANGED issued
     ELSE IF login_fields_missing(data)
     THEN /\ resp' = Resp("login", 400, Msg("email and password required"))
          /\ UNCHANGED issued
     ELSE IF \A u \in users_by_email(data.email) : ~check_password_hash(u.password_hash, data.password)
     THEN /\ resp' = Resp("login", 401, Msg("Invalid credentials"))
          /\ UNCHANGED issued
     ELSE \E user \in users_by_email(data.email) :
            /\ check_password_hash(user.password_hash, data.password)
            /\ issued' = Keep(_generate_token(user.id))
            /\ resp' = Resp("login", 200, [token |-> _generate_token(user.id)])
  /\ UNCHANGED <<store, now, inflight, current_user_id>>

(***************************************************************************)
(* GET /auth/me                                                            *)
(***************************************************************************)
\* a token no key signed: not three segments, or a payload that does not decode
Garbage == [user_id |-> 0, exp |-> 0, sig |-> <<"", 0, 0>>]

\* a token signed with a key other than the server's
Forged(user_id, exp) == [user_id |-> user_id, exp |-> exp, sig |-> Sign(user_id, exp, "guessed-key")]

\* a signed token whose payload was altered afterwards: another user, a later expiry
Tampered(token) ==
  { [token EXCEPT !.user_id = i] : i \in 1..MaxUsers } \cup { [token EXCEPT !.exp = @ + TOKEN_HOURS] }

\* the tokens a caller can present: those it was handed, and what it can make of them
Presentable ==
  issued \cup UNION {Tampered(t) : t \in issued} \cup {Forged(t.user_id, t.exp) : t \in issued} \cup {Garbage}

NoHeader == [scheme |-> "", token |-> Garbage]

\* the Authorization header: absent, of another scheme, or 'Bearer <token>'
Headers ==
  {NoHeader, [scheme |-> "Basic", token |-> Garbage]} \cup [scheme : {"Bearer"}, token : Presentable]

\* users_by_id had the query returned the first user of the table
users_by_id_first(id) == {u \in users : \A v \in users : u.id <= v.id}

\* User.query.get(id): the users with that primary key (at most one)
users_by_id(id) == {u \in users : u.id = id}

profile(user) ==
  [id |-> user.id, username |-> user.username, email |-> user.email,
   role |-> user.role, created_at |-> isoformat(user.created_at)]

me(auth_header) ==
  /\ req' = [at |-> now, op |-> "me", data |-> EmptyBody, auth |-> auth_header]
  /\ resp' =
       IF auth_header.scheme # "Bearer" THEN Resp("me", 401, Msg("Missing token"))
       ELSE IF jwt_decode(auth_header.token, SECRET_KEY, now) = "ExpiredSignatureError"
            THEN Resp("me", 401, Msg("Token expired"))
       ELSE IF jwt_decode(auth_header.token, SECRET_KEY, now) = "InvalidTokenError"
            THEN Resp("me", 401, Msg("Invalid token"))
       ELSE IF users_by_id(auth_header.token.user_id) = {}
            THEN Resp("me", 404, Msg("User not found"))
       ELSE Resp("me", 200, profile(CHOOSE u \in users_by_id(auth_header.token.user_id) : TRUE))
  /\ UNCHANGED <<store, now, issued, inflight, current_user_id>>

(***************************************************************************)
(* Persistence contracts of tables tasks and orders.                       *)
(***************************************************************************)
\* owner_ok had user_id been declared without its foreign key
owner_ok_not_null_only(data) == "user_id" \in DOMAIN data

\* user_id is NOT NULL and a foreign key to users.id: checked at commit
owner_ok(data) == "user_id" \in DOMAIN data /\ \E u \in users : u.id = data.user_id

\* rows_by_id had the lookup not compared the primary key
rows_by_id_unfiltered(table, id) == table

\* Query.get_or_404: the rows with that primary key (at most one)
rows_by_id(table, id) == {r \in table : r.id = id}

\* setattrs had the loop run over 'title' alone
setattrs_title_only(row, data, attrs) ==
  [k \in DOMAIN row |-> IF k = "title" /\ k \in DOMAIN data THEN data[k] ELSE row[k]]

\* the loop of setattr over the attributes the body names
setattrs(row, data, attrs) ==
  [k \in DOMAIN row |-> IF k \in attrs /\ k \in DOMAIN data THEN data[k] ELSE row[k]]

not_found(op) == Resp(op, 404, Msg("Resource not found"))

internal_error(op) == Resp(op, 500, Msg("Internal server error"))

(***************************************************************************)
(* /api/tasks                                                              *)
(***************************************************************************)
task_to_dict(task) ==
  [id |-> task.id, title |-> task.title, description |-> task.description,
   status |-> task.status, due_date |-> task.due_date, user_id |-> task.user_id,
   created_at |-> isoformat(task.created_at)]

\* Task had the id been one more than the largest stored id (a rowid that is reused)
Task_reusing_ids(data) ==
  [id |-> 1 + Cardinality({i \in 1..nextTaskId : \E t \in tasks : t.id >= i}),
   title |-> data.title,
   description |-> Get(data, "description"),
   status |-> IF "status" \in DOMAIN data THEN data.status ELSE "pending",
   due_date |-> Get(data, "due_date"),
   created_at |-> now,
   user_id |-> IF "user_id" \in DOMAIN data THEN data.user_id ELSE 0]

Task(data) ==
  [id |-> nextTaskId,
   title |-> data.title,
   description |-> Get(data, "description"),
   status |-> IF "status" \in DOMAIN data THEN data.status ELSE "pending",
   due_date |-> Get(data, "due_date"),
   created_at |-> now,
   user_id |-> IF "user_id" \in DOMAIN data THEN data.user_id ELSE 0]

\* not title
task_fields_missing(data) == ~Truthy(Get(data, "title"))

\* create_task had the response echoed the request body instead of the stored row
create_task_echoing_body(data) ==
  /\ req' = [at |-> now, op |-> "create_task", data |-> data]
  /\ IF DOMAIN data = {}
     THEN /\ resp' = Resp("create_task", 400, Msg("Missing JSON body"))
          /\ UNCHANGED <<tasks, nextTaskId>>
     ELSE IF task_fields_missing(data)
     THEN /\ resp' = Resp("create_task", 400, Msg("Title is required"))
          /\ UNCHANGED <<tasks, nextTaskId>>
     ELSE IF ~owner_ok(data)
     THEN /\ resp' = internal_error("create_task")
          /\ UNCHANGED <<tasks, nextTaskId>>
     ELSE /\ tasks' = tasks \cup {Task(data)}
          /\ nextTaskId' = nextTaskId + 1
          /\ resp' = Resp("create_task", 201,
                          task_to_dict([Task(data) EXCEPT !.status = Get(data, "status")]))
  /\ UNCHANGED <<users, orders, nextUserId, nextOrderId, now, issued, inflight, current_user_id>>

create_task(data) ==
  /\ req' = [at |-> now, op |-> "create_task", data |-> data]
  /\ IF DOMAIN data = {}
     THEN /\ resp' = Resp("create_task", 400, Msg("Missing JSON body"))
          /\ UNCHANGED <<tasks, nextTaskId>>
     ELSE IF task_fields_missing(data)
     THEN /\ resp' = Resp("create_task", 400, Msg("Title is required"))
          /\ UNCHANGED <<tasks, nextTaskId>>
     ELSE IF ~owner_ok(data)
     THEN /\ resp' = internal_error("create_task")
          /\ UNCHANGED <<tasks, nextTaskId>>
     ELSE /\ tasks' = tasks \cup {Task(data)}
          /\ nextTaskId' = nextTaskId + 1
          /\ resp' = Resp("create_task", 201, task_to_dict(Task(data)))
  /\ UNCHANGED <<users, orders, nextUserId, nextOrderId, now, issued, inflight, current_user_id>>

get_task(task_id) ==
  /\ req' = [at |-> now, op |-> "get_task", data |-> EmptyBody, id |-> task_id]
  /\ resp' = IF rows_by_id(tasks, task_id) = {} THEN not_found("get_task")
             ELSE Resp("get_task", 200, task_to_dict(CHOOSE t \in rows_by_id(tasks, task_id) : TRUE))
  /\ UNCHANGED <<store, now, issued, inflight, current_user_id>>

\* update_task had each attribute been written as it was set: a refused owner leaves the
\* other attributes of the body in the row
update_task_half_applied(task_id, data) ==
  /\ req' = [at |-> now, op |-> "update_task", data |-> data, id |-> task_id]
  /\ IF rows_by_id(tasks, task_id) = {}
     THEN /\ resp' = not_found("update_task")
          /\ UNCHANGED tasks
     ELSE IF DOMAIN data = {}
     THEN /\ resp' = Resp("update_task", 400, Msg("Missing JSON body"))
          /\ UNCHANGED tasks
     ELSE LET task == CHOOSE t \in rows_by_id(tasks, task_id) : TRUE
              updated == setattrs(task, data, {"title", "description", "status", "due_date", "user_id"})
              half == setattrs(task, data, {"title", "description", "status", "due_date"})
          IN IF "user_id" \in DOMAIN data /\ ~owner_ok(data)
             THEN /\ resp' = internal_error("update_task")
                  /\ tasks' = (tasks \ {task}) \cup {half}
             ELSE /\ tasks' = (tasks \ {task}) \cup {updated}
                  /\ resp' = Resp("update_task", 200, task_to_dict(updated))
  /\ UNCHANGED <<users, orders, nextUserId, nextTaskId, nextOrderId, now, issued, inflight, current_user_id>>

update_task(task_id, data) ==
  /\ req' = [at |-> now, op |-> "update_task", data |-> data, id |-> task_id]
  /\ IF rows_by_id(tasks, task_id) = {}
     THEN /\ resp' = not_found("update_task")
          /\ UNCHANGED tasks
     ELSE IF DOMAIN data = {}
     THEN /\ resp' = Resp("update_task", 400, Msg("Missing JSON body"))
          /\ UNCHANGED tasks
     ELSE LET task == CHOOSE t \in rows_by_id(tasks, task_id) : TRUE
              updated == setattrs(task, data, {"title", "description", "status", "due_date", "user_id"})
          IN IF "user_id" \in DOMAIN data /\ ~owner_ok(data)
             THEN /\ resp' = internal_error("update_task")
                  /\ UNCHANGED tasks
             ELSE /\ tasks' = (tasks \ {task}) \cup {updated}
                  /\ resp' = Resp("update_task", 200, task_to_dict(updated))
  /\ UNCHANGED <<users, orders, nextUserId, nextTaskId, nextOrderId, now, issued, inflight, current_user_id>>

delete_task(task_id) ==
  /\ req' = [at |-> now, op |-> "delete_task", data |-> EmptyBody, id |-> task_id]
  /\ IF rows_by_id(tasks, task_id) = {}
     THEN /\ resp' = not_found("delete_task")
          /\ UNCHANGED tasks
     ELSE /\ tasks' = tasks \ rows_by_id(tasks, task_id)
          /\ resp' = Resp("delete_task", 200, Msg("Task deleted"))
  /\ UNCHANGED <<users, orders, nextUserId, nextTaskId, nextOrderId, now, issued, inflight, current_user_id>>

(***************************************************************************)
(* /api/orders                                                             *)
(***************************************************************************)
order_to_dict(order) ==
  [id |-> order.id, product_name |-> order.product_name, quantity |-> order.quantity,
   price |-> order.price, user_id |-> order.user_id,
   created_at |-> isoformat(order.created_at)]

Order(data) ==
  [id |-> nextOrderId,
   product_name |-> data.product_name,
   quantity |-> IF "quantity" \in DOMAIN data THEN data.quantity ELSE 1,
   price |-> data.price,
   created_at |-> now,
   user_id |-> IF "user_id" \in DOMAIN data THEN data.user_id ELSE 0]

\* order_fields_missing had the test been "not price"
order_fields_missing_falsy_price(data) ==
  ~Truthy(Get(data, "product_name")) \/ "price" \notin DOMAIN data \/ data.price = 0

\* not product_name or price is None
order_fields_missing(data) == ~Truthy(Get(data, "product_name")) \/ "price" \notin DOMAIN data

create_order(data) ==
  /\ req' = [at |-> now, op |-> "create_order", data |-> data]
  /\ IF DOMAIN data = {}
     THEN /\ resp' = Resp("create_order", 400, Msg("Missing JSON body"))
          /\ UNCHANGED <<orders, nextOrderId>>
     ELSE IF order_fields_missing(data)
     THEN /\ resp' = Resp("create_order", 400, Msg("product_name and price are required"))
          /\ UNCHANGED <<orders, nextOrderId>>
     ELSE IF ~owner_ok(data)
     THEN /\ resp' = internal_error("create_order")
          /\ UNCHANGED <<orders, nextOrderId>>
     ELSE /\ orders' = orders \cup {Order(data)}
          /\ nextOrderId' = nextOrderId + 1
          /\ resp' = Resp("create_order", 201, order_to_dict(Order(data)))
  /\ UNCHANGED <<users, tasks, nextUserId, nextTaskId, now, issued, inflight, current_user_id>>

get_order(order_id) ==
  /\ req' = [at |-> now, op |-> "get_order", data |-> EmptyBody, id |-> order_id]
  /\ resp' = IF rows_by_id(orders, order_id) = {} THEN not_found("get_order")
             ELSE Resp("get_order", 200, order_to_dict(CHOOSE o \in rows_by_id(orders, order_id) : TRUE))
  /\ UNCHANGED <<store, now, issued, inflight, current_user_id>>

update_order(order_id, data) ==
  /\ req' = [at |-> now, op |-> "update_order", data |-> data, id |-> order_id]
  /\ IF rows_by_id(orders, order_id) = {}
     THEN /\ resp' = not_found("update_order")
          /\ UNCHANGED orders
     ELSE IF DOMAIN data = {}
     THEN /\ resp' = Resp("update_order", 400, Msg("Missing JSON body"))
          /\ UNCHANGED orders
     ELSE LET order == CHOOSE o \in rows_by_id(orders, order_id) : TRUE
              updated == setattrs(order, data, {"product_name", "quantity", "price", "user_id"})
          IN IF "user_id" \in DOMAIN data /\ ~owner_ok(data)
             THEN /\ resp' = internal_error("update_order")
                  /\ UNCHANGED orders
             ELSE /\ orders' = (orders \ {order}) \cup {updated}
                  /\ resp' = Resp("update_order", 200, order_to_dict(updated))
  /\ UNCHANGED <<users, tasks, nextUserId, nextTaskId, nextOrderId, now, issued, inflight, current_user_id>>

delete_order(order_id) ==
  /\ req' = [at |-> now, op |-> "delete_order", data |-> EmptyBody, id |-> order_id]
  /\ IF rows_by_id(orders, order_id) = {}
     THEN /\ resp' = not_found("delete_order")
          /\ UNCHANGED orders
     ELSE /\ orders' = orders \ rows_by_id(orders, order_id)
          /\ resp' = Resp("delete_order", 200, Msg("Order deleted"))
  /\ UNCHANGED <<users, tasks, nextUserId, nextTaskId, nextOrderId, now, issued, inflight, current_user_id>>

(***************************************************************************)
(* GET /api/tasks and GET /api/orders.  A query parameter is the sequence  *)
(* of the characters of its value.                                         *)
(***************************************************************************)
DigitValue ==
  ("0" :> 0) @@ ("1" :> 1) @@ ("2" :> 2) @@ ("3" :> 3) @@ ("4" :> 4) @@
  ("5" :> 5) @@ ("6" :> 6) @@ ("7" :> 7) @@ ("8" :> 8) @@ ("9" :> 9)

\* the digits that follow an optional sign
Unsigned(s) == IF s # <<>> /\ Head(s) \in {"-", "+"} THEN Tail(s) ELSE s

\* int(s) does not raise ValueError
is_int(s) == Unsigned(s) # <<>> /\ \A i \in 1..Len(Unsigned(s)) : Unsigned(s)[i] \in DOMAIN DigitValue

RECURSIVE digits_value(_)
digits_value(s) ==
  IF s = <<>> THEN 0
  ELSE 10 * digits_value(SubSeq(s, 1, Len(s) - 1)) + DigitValue[s[Len(s)]]

\* int(s)
int(s) == IF s # <<>> /\ Head(s) = "-" THEN 0 - digits_value(Unsigned(s)) ELSE digits_value(Unsigned(s))

\* request.args.get(key, default, type=int): the default when the key is absent or
\* its value does not convert
args_get_int(args, key, default) ==
  IF key \in DOMAIN args /\ is_int(args[key]) THEN int(args[key]) ELSE default

\* the query strings of the list endpoints: page and per_page absent, not a number, zero,
\* negative or positive; the owner filter absent or the id of a user
PageArgs == {<<"x">>, <<"0">>, <<"-", "1">>, <<"1">>, <<"2">>, <<"3">>}
PerPageArgs == {<<"x">>, <<"0">>, <<"-", "2">>, <<"1">>, <<"2">>}
UserIdArgs == {<<"1">>, <<"2">>}

\* every page with a well-formed per_page, every per_page with a well-formed page, and
\* the owner filter with the first pages of one and of ten records
ListArgs ==
  PartialBodies({"page", "per_page"}, [page |-> PageArgs, per_page |-> {<<"1">>, <<"2">>}])
    \cup PartialBodies({"page", "per_page"}, [page |-> {<<"1">>, <<"2">>}, per_page |-> PerPageArgs])
    \cup {[page |-> <<"0">>, per_page |-> <<"0">>]}
    \cup PartialBodies({"page", "per_page", "user_id"},
                       [page |-> {<<"1">>, <<"2">>}, per_page |-> {<<"1">>}, user_id |-> UserIdArgs])

\* query.filter_by(user_id=user_id) when the parameter is given and not empty
filter_by_user_id(table, args) ==
  IF "user_id" \in DOMAIN args /\ args.user_id # <<>>
  THEN {r \in table : is_int(args.user_id) /\ r.user_id = int(args.user_id)}
  ELSE table

\* the orders a SELECT without ORDER BY can return the rows in
Orderings(rows) ==
  {f \in [1..Cardinality(rows) -> rows] : \A i, j \in 1..Cardinality(rows) : f[i] = f[j] => i = j}

\* paginate had a page beyond the last been served as the last page
paginate_clamping_page(ordered, page, per_page) ==
  LET per_page_ == IF per_page < 1 THEN 20 ELSE per_page
      total == Len(ordered)
      pages == IF total = 0 THEN 0 ELSE (total + per_page_ - 1) \div per_page_
      page_ == IF page < 1 THEN 1 ELSE IF page > pages /\ pages > 0 THEN pages ELSE page
      first == (page_ - 1) * per_page_ + 1
      last == IF page_ * per_page_ < total THEN page_ * per_page_ ELSE total
  IN [items |-> IF first > total THEN <<>> ELSE SubSeq(ordered, first, last),
      total |-> total,
      pages |-> pages]

\* paginate had the number of pages been rounded down
paginate_rounding_down(ordered, page, per_page) ==
  LET page_ == IF page < 1 THEN 1 ELSE page
      per_page_ == IF per_page < 1 THEN 20 ELSE per_page
      total == Len(ordered)
      first == (page_ - 1) * per_page_ + 1
      last == IF page_ * per_page_ < total THEN page_ * per_page_ ELSE total
  IN [items |-> IF first > total THEN <<>> ELSE SubSeq(ordered, first, last),
      total |-> total,
      pages |-> total \div per_page_]

\* query.paginate(page, per_page, error_out=False) over the rows in the order the database
\* returns them: a page below 1 is served as page 1, a per_page below 1 as 20
paginate(ordered, page, per_page) ==
  LET page_ == IF page < 1 THEN 1 ELSE page
      per_page_ == IF per_page < 1 THEN 20 ELSE per_page
      total == Len(ordered)
      first == (page_ - 1) * per_page_ + 1
      last == IF page_ * per_page_ < total THEN page_ * per_page_ ELSE total
  IN [items |-> IF first > total THEN <<>> ELSE SubSeq(ordered, first, last),
      total |-> total,
      pages |-> IF total = 0 THEN 0 ELSE (total + per_page_ - 1) \div per_page_]

get_tasks(args) ==
  /\ req' = [at |-> now, op |-> "get_tasks", data |-> EmptyBody, args |-> args]
  /\ \E ordered \in Orderings(filter_by_user_id(tasks, args)) :
       LET page == args_get_int(args, "page", 1)
           per_page == args_get_int(args, "per_page", 10)
           pagination == paginate(ordered, page, per_page)
       IN resp' = Resp("get_tasks", 200,
                       [tasks |-> [i \in DOMAIN pagination.items |-> task_to_dict(pagination.items[i])],
                        total |-> pagination.total,
                        pages |-> pagination.pages,
                        current_page |-> page])
  /\ UNCHANGED <<store, now, issued, inflight, current_user_id>>

get_orders(args) ==
  /\ req' = [at |-> now, op |-> "get_orders", data |-> EmptyBody, args |-> args]
  /\ \E ordered \in Orderings(filter_by_user_id(orders, args)) :
       LET page == args_get_int(args, "page", 1)
           per_page == args_get_int(args, "per_page", 10)
           pagination == paginate(ordered, page, per_page)
       IN resp' = Resp("get_orders", 200,
                       [orders |-> [i \in DOMAIN pagination.items |-> order_to_dict(pagination.items[i])],
                        total |-> pagination.total,
                        pages |-> pagination.pages,
                        current_page |-> page])
  /\ UNCHANGED <<store, now, issued, inflight, current_user_id>>

(***************************************************************************)
(* Deleting a user through the ORM: the relationships User.tasks and       *)
(* User.orders cascade the deletion to the rows the user owns.             *)
(***************************************************************************)
\* delete_user had the relationships not cascaded the deletion
delete_user_without_cascade(user_id) ==
  /\ users_by_id(user_id) # {}
  /\ users' = users \ users_by_id(user_id)
  /\ req' = [at |-> now, op |-> "delete_user", data |-> EmptyBody, id |-> user_id]
  /\ resp' = Resp("delete_user", 0, Msg(""))
  /\ UNCHANGED <<tasks, orders, nextUserId, nextTaskId, nextOrderId, now, issued, inflight, current_user_id>>

delete_user(user_id) ==
  /\ users_by_id(user_id) # {}
  /\ users' = users \ users_by_id(user_id)
  /\ tasks' = {t \in tasks : t.user_id # user_id}
  /\ orders' = {o \in orders : o.user_id # user_id}
  /\ req' = [at |-> now, op |-> "delete_user", data |-> EmptyBody, id |-> user_id]
  /\ resp' = Resp("delete_user", 0, Msg(""))
  /\ UNCHANGED <<nextUserId, nextTaskId, nextOrderId, now, issued, inflight, current_user_id>>

\* updates that reassign a record (or carry nothing), and list requests with and without the owner filter
OwnerBodies == PartialBodies({"user_id"}, [user_id |-> UserIds])
OwnerArgs == PartialBodies({"user_id"}, [user_id |-> UserIdArgs])

\* register requests that carry every field: the three identities with one password
CompleteRegisterBodies ==
  {b \in RegisterBodies : DOMAIN b = {"username", "email", "password"} /\ b.password = "pw1"}

\* updates of a title, of an owner, or of both
RetitleBodies ==
  Join(PartialBodies({"title"}, [title |-> {"t2"}]), PartialBodies({"user_id"}, [user_id |-> UserIds]))

(***************************************************************************)
(* Routing of /api: the views are registered with @api_blueprint.route     *)
(* alone, so a request reaches its view whatever Authorization header it   *)
(* carries.                                                                *)
(***************************************************************************)
\* the callers of the resource endpoints: one without a token, and one with a valid
\* token of each user
Callers == {NoHeader} \cup {[scheme |-> "Bearer", token |-> _generate_token(i)] : i \in UserIds}

\* dispatch had the views been wrapped in a check for a bearer token
dispatch_token_required(auth_header, view) == auth_header.scheme = "Bearer" /\ view

dispatch(auth_header, view) == view

(***************************************************************************)
(* DatabaseService: the session it keeps in current_user_id, and the task  *)
(* and order operations it scopes to that session.                         *)
(***************************************************************************)
\* the value a facade operation returns
Returned(op, value) == Resp(op, 0, [ok |-> value])

ds_login(email, password) ==
  /\ req' = [at |-> now, op |-> "ds_login", data |-> [email |-> email, password |-> password]]
  /\ IF \E user \in users_by_email(email) : check_password_hash(user.password_hash, password)
     THEN \E user \in users_by_email(email) :
            /\ current_user_id' = user.id
            /\ resp' = Result("ds_login", TRUE, "Login successful")
     ELSE /\ resp' = Result("ds_login", FALSE, "Invalid email or password")
          /\ UNCHANGED current_user_id
  /\ UNCHANGED <<store, now, issued, inflight>>

logout ==
  /\ req' = [at |-> now, op |-> "logout", data |-> EmptyBody]
  /\ current_user_id' = 0
  /\ resp' = Resp("logout", 0, Msg(""))
  /\ UNCHANGED <<store, now, issued, inflight>>

\* rows_by_user_id had the query not been filtered
rows_by_user_id_unfiltered(table, user_id) == table

\* session.query(...).filter_by(user_id=self.current_user_id).all()
rows_by_user_id(table, user_id) == {r \in table : r.user_id = user_id}

_task_to_dict(task) ==
  [id |-> task.id, title |-> task.title, description |-> task.description,
   status |-> task.status, user_id |-> task.user_id]

ds_get_tasks ==
  /\ req' = [at |-> now, op |-> "ds_get_tasks", data |-> EmptyBody]
  /\ IF current_user_id = 0
     THEN resp' = Resp("ds_get_tasks", 0, [tasks |-> <<>>])
     ELSE \E all \in Orderings(rows_by_user_id(tasks, current_user_id)) :
            resp' = Resp("ds_get_tasks", 0, [tasks |-> [i \in DOMAIN all |-> _task_to_dict(all[i])]])
  /\ UNCHANGED <<store, now, issued, inflight, current_user_id>>

ds_create_task(title, description) ==
  LET task == Task([title |-> title, description |-> description] @@ [user_id |-> current_user_id])
  IN /\ req' = [at |-> now, op |-> "ds_create_task",
                data |-> [title |-> title, description |-> description]]
     /\ IF current_user_id = 0
        THEN /\ resp' = Returned("ds_create_task", FALSE)
             /\ UNCHANGED <<tasks, nextTaskId>>
        ELSE IF owner_ok([user_id |-> current_user_id])
        THEN /\ tasks' = tasks \cup {task}
             /\ nextTaskId' = nextTaskId + 1
             /\ resp' = Returned("ds_create_task", TRUE)
        ELSE /\ resp' = Returned("ds_create_task", FALSE)
             /\ UNCHANGED <<tasks, nextTaskId>>
     /\ UNCHANGED <<users, orders, nextUserId, nextOrderId, now, issued, inflight, current_user_id>>

\* ds_delete_task had the owner not been compared with the session
ds_delete_task_of_any_owner(task_id) ==
  /\ req' = [at |-> now, op |-> "ds_delete_task", data |-> EmptyBody, id |-> task_id]
  /\ IF \E task \in tasks : task.id = task_id
     THEN /\ tasks' = {t \in tasks : t.id # task_id}
          /\ resp' = Returned("ds_delete_task", TRUE)
     ELSE /\ resp' = Returned("ds_delete_task", FALSE)
          /\ UNCHANGED tasks
  /\ UNCHANGED <<users, orders, nextUserId, nextTaskId, nextOrderId, now, issued, inflight, current_user_id>>

ds_delete_task(task_id) ==
  /\ req' = [at |-> now, op |-> "ds_delete_task", data |-> EmptyBody, id |-> task_id]
  /\ IF \E task \in rows_by_id(tasks, task_id) : task.user_id = current_user_id
     THEN /\ tasks' = tasks \ rows_by_id(tasks, task_id)
          /\ resp' = Returned("ds_delete_task", TRUE)
     ELSE /\ resp' = Returned("ds_delete_task", FALSE)
          /\ UNCHANGED tasks
  /\ UNCHANGED <<users, orders, nextUserId, nextTaskId, nextOrderId, now, issued, inflight, current_user_id>>

_order_to_dict(order) ==
  [id |-> order.id, product_name |-> order.product_name, price |-> order.price,
   quantity |-> order.quantity, user_id |-> order.user_id]

ds_get_orders ==
  /\ req' = [at |-> now, op |-> "ds_get_orders", data |-> EmptyBody]
  /\ IF current_user_id = 0
     THEN resp' = Resp("ds_get_orders", 0, [orders |-> <<>>])
     ELSE \E all \in Orderings(rows_by_user_id(orders, current_user_id)) :
            resp' = Resp("ds_get_orders", 0, [orders |-> [i \in DOMAIN all |-> _order_to_dict(all[i])]])
  /\ UNCHANGED <<store, now, issued, inflight, current_user_id>>

ds_create_order(product_name, price, quantity) ==
  LET order == Order([product_name |-> product_name] @@
                     [price |-> price, quantity |-> quantity, user_id |-> current_user_id])
  IN /\ req' = [at |-> now, op |-> "ds_create_order",
                data |-> [product_name |-> product_name] @@ [price |-> price, quantity |-> quantity]]
     /\ IF current_user_id = 0
        THEN /\ resp' = Returned("ds_create_order", FALSE)
             /\ UNCHANGED <<orders, nextOrderId>>
        ELSE IF owner_ok([user_id |-> current_user_id])
        THEN /\ orders' = orders \cup {order}
             /\ nextOrderId' = nextOrderId + 1
             /\ resp' = Returned("ds_create_order", TRUE)
        ELSE /\ resp' = Returned("ds_create_order", FALSE)
             /\ UNCHANGED <<orders, nextOrderId>>
     /\ UNCHANGED <<users, tasks, nextUserId, nextTaskId, now, issued, inflight, current_user_id>>

(***************************************************************************)
(* APIClient: the session it keeps in token and user_id, and its           *)
(* operations, each an HTTP call to the Resource API.  login and register  *)
(* make two calls, POST and then GET /auth/me; api_client.pc tells which   *)
(* of them is waiting for its second call, and api_client.was is the       *)
(* session as it was when that operation was called.                       *)
(***************************************************************************)
\* self.token = None
NoToken == [user_id |-> 0, exp |-> 0, sig |-> <<"None", 0, 0>>]

\* the fate of an HTTP call: answered; failed before the server received it
\* (ConnectionError); handled by the server, its response not received in time (Timeout)
Net == {"ok", "refused", "timeout"}

\* what the server side consists of
server == <<store, now, issued, inflight, current_user_id, req, resp>>

\* requests.get / post / delete (..., timeout=5): the view runs unless the connection fails
requests(net, view) == IF net = "refused" THEN UNCHANGED server ELSE view

\* return None
NoData == [ok |-> FALSE]

\* what an operation returned to its caller
Ret(op, value) == [op |-> op, value |-> value]

\* APIClient.__init__
APIClient == [token |-> NoToken, user_id |-> 0, pc |-> "idle",
              was |-> [token |-> NoToken, user_id |-> 0],
              http |-> [call |-> "none", net |-> "ok"],
              ret |-> Ret("none", [ok |-> FALSE])]

session == [token |-> api_client.token, user_id |-> api_client.user_id]

\* _get_headers: the Authorization header is sent when a token is held
_get_headers ==
  IF api_client.token # NoToken THEN [scheme |-> "Bearer", token |-> api_client.token] ELSE NoHeader

Digits == <<"0", "1", "2", "3", "4", "5", "6", "7", "8", "9">>

\* str(n) of a natural number, as the query string carries it
RECURSIVE str(_)
str(n) == IF n < 10 THEN <<Digits[n + 1]>> ELSE str(n \div 10) \o <<Digits[(n % 10) + 1]>>

\* a dict without the entries whose value is None: requests leaves them out of the query
\* string, and the handlers read a JSON null as they read an absent key
Owned(data) == IF api_client.user_id # 0 THEN data @@ [user_id |-> api_client.user_id] ELSE data

\* params = {'page': page, 'per_page': per_page, 'user_id': self.user_id}
params(page, per_page) ==
  [page |-> str(page), per_page |-> str(per_page)] @@
  (IF api_client.user_id # 0 THEN [user_id |-> str(api_client.user_id)] ELSE EmptyBody)

\* the client after the one HTTP call of an operation: the call and its fate, the session
\* the operation was called with, and what the operation returns
Called(op, net, value) ==
  [api_client EXCEPT !.was = session, !.http = [call |-> op, net |-> net], !.ret = Ret(op, value)]

\* the client after the get_me that login and register end with
Fetched(op, net, value) ==
  [api_client EXCEPT !.pc = "idle", !.http = [call |-> "get_me", net |-> net], !.ret = Ret(op, value)]

\* the first call of login: POST /auth/login
api_login(email, password, net) ==
  /\ api_client.pc = "idle"
  /\ requests(net, login([email |-> email, password |-> password]))
  /\ api_client' =
       IF net # "ok"
       THEN Called("login", net, [ok |-> FALSE, msg |-> "Connection error"])
       ELSE IF resp'.status = 200
       THEN [Called("login", net, [ok |-> FALSE, msg |-> ""]) EXCEPT !.token = resp'.body.token, !.pc = "login"]
       ELSE Called("login", net, [ok |-> FALSE, msg |-> resp'.body.msg])
  /\ UNCHANGED gui

\* the second call of login: get_me, and the result that depends on it
api_login_get_me(net) ==
  /\ api_client.pc = "login"
  /\ requests(net, me(_get_headers))
  /\ api_client' =
       IF net = "ok" /\ resp'.status = 200
       THEN [Fetched("login", net, [ok |-> TRUE, msg |-> "Login successful"]) EXCEPT !.user_id = resp'.body.id]
       ELSE Fetched("login", net, [ok |-> FALSE, msg |-> "Login successful but failed to fetch user details"])
  /\ UNCHANGED gui

\* the first call of register: POST /auth/register
api_register(data, net) ==
  /\ api_client.pc = "idle"
  /\ requests(net, register(data))
  /\ api_client' =
       IF net # "ok"
       THEN Called("register", net, [ok |-> FALSE, msg |-> "Connection error"])
       ELSE IF resp'.status = 201
       THEN [Called("register", net, [ok |-> FALSE, msg |-> ""]) EXCEPT !.token = resp'.body.token, !.pc = "register"]
       ELSE Called("register", net, [ok |-> FALSE, msg |-> resp'.body.msg])
  /\ UNCHANGED gui

\* the second call of register: get_me, whose result register does not look at
api_register_get_me(net) ==
  /\ api_client.pc = "register"
  /\ requests(net, me(_get_headers))
  /\ api_client' =
       [Fetched("register", net, [ok |-> TRUE, msg |-> "Registration successful"])
          EXCEPT !.user_id = IF net = "ok" /\ resp'.status = 200 THEN resp'.body.id ELSE @]
  /\ UNCHANGED gui

\* get_me called on its own: the profile, or None
api_get_me(net) ==
  /\ api_client.pc = "idle"
  /\ requests(net, me(_get_headers))
  /\ api_client' =
       IF net = "ok" /\ resp'.status = 200
       THEN [Called("get_me", net, resp'.body) EXCEPT !.user_id = resp'.body.id]
       ELSE Called("get_me", net, NoData)
  /\ UNCHANGED gui

\* api_get_tasks had the exception not been caught: it leaves the method
api_get_tasks_raising(page, per_page, net) ==
  /\ api_client.pc = "idle"
  /\ requests(net, dispatch(_get_headers, get_tasks(params(page, per_page))))
  /\ api_client' =
       IF net = "ok" /\ resp'.status = 200
       THEN Called("get_tasks", net, resp'.body)
       ELSE Called("get_tasks", net, [raised |-> "RequestException"])
  /\ UNCHANGED gui

api_get_tasks(page, per_page, net) ==
  /\ api_client.pc = "idle"
  /\ requests(net, dispatch(_get_headers, get_tasks(params(page, per_page))))
  /\ api_client' =
       IF net = "ok" /\ resp'.status = 200
       THEN Called("get_tasks", net, resp'.body)
       ELSE Called("get_tasks", net, [tasks |-> <<>>, total |-> 0])
  /\ UNCHANGED gui

api_create_task(title, description, net) ==
  /\ api_client.pc = "idle"
  /\ requests(net, dispatch(_get_headers, create_task(Owned([title |-> title, description |-> description]))))
  /\ api_client' = Called("create_task", net, [ok |-> net = "ok" /\ resp'.status = 201])
  /\ UNCHANGED gui

api_delete_task(task_id, net) ==
  /\ api_client.pc = "idle"
  /\ requests(net, dispatch(_get_headers, delete_task(task_id)))
  /\ api_client' = Called("delete_task", net, [ok |-> net = "ok" /\ resp'.status = 200])
  /\ UNCHANGED gui

api_get_orders(page, per_page, net) ==
  /\ api_client.pc = "idle"
  /\ requests(net, dispatch(_get_headers, get_orders(params(page, per_page))))
  /\ api_client' =
       IF net = "ok" /\ resp'.status = 200
       THEN Called("get_orders", net, resp'.body)
       ELSE Called("get_orders", net, [orders |-> <<>>, total |-> 0])
  /\ UNCHANGED gui

api_create_order(product_name, price, quantity, net) ==
  /\ api_client.pc = "idle"
  /\ requests(net, dispatch(_get_headers,
                            create_order(Owned([product_name |-> product_name] @@
                                               [price |-> price, quantity |-> quantity]))))
  /\ api_client' = Called("create_order", net, [ok |-> net = "ok" /\ resp'.status = 201])
  /\ UNCHANGED gui

(***************************************************************************)
(* The desktop window (JobPortalApp) over DatabaseService: the login and   *)
(* register frames, and the task view of the dashboard with its worker     *)
(* threads and the callbacks they schedule on the main loop.  gui.ran      *)
(* tells what the step taken last did: the thread it ran on, the facade    *)
(* operation it called, and whether it touched a widget.                   *)
(***************************************************************************)
Ran(thread, call, widgets) == [thread |-> thread, call |-> call, widgets |-> widgets]

\* JobPortalApp.__init__: the login frame is shown
JobPortalApp ==
  [frame |-> "login", content |-> [loading |-> FALSE, cards |-> <<>>],
   threads |-> <<>>, after |-> <<>>, ran |-> Ran("ui", "none", TRUE)]

\* a sequence without its i-th element
Remove(s, i) == SubSeq(s, 1, i - 1) \o SubSeq(s, i + 1, Len(s))

\* what no step of the window changes on its own
backend == <<store, now, issued, inflight, current_user_id, req, resp>>

\* DashboardFrame.load_tasks: the view is cleared, 'RETRIEVING DATA...' is shown, and a
\* thread is started to fetch the tasks
loading_tasks(g) ==
  [g EXCEPT !.content = [loading |-> TRUE, cards |-> <<>>],
            !.threads = Append(@, [target |-> "_fetch_tasks_thread", arg |-> 0, orphan |-> FALSE])]

\* JobPortalApp.switch_frame: the current frame is destroyed, and with it the callbacks
\* scheduled on it; its threads run on
switch_frame(g, frame) ==
  [g EXCEPT !.frame = frame,
            !.content = [loading |-> FALSE, cards |-> <<>>],
            !.threads = [i \in DOMAIN @ |-> [@[i] EXCEPT !.orphan = TRUE]],
            !.after = <<>>]

\* LoginFrame.login, the command of the AUTHENTICATE button
LoginFrame_login(email, password) ==
  /\ gui.frame = "login"
  /\ IF email = "" \/ password = ""
     THEN /\ gui' = [gui EXCEPT !.ran = Ran("ui", "none", TRUE)]
          /\ UNCHANGED backend
     ELSE /\ ds_login(email, password)
          /\ gui' = IF resp'.body.ok
                    THEN [loading_tasks(switch_frame(gui, "dashboard")) EXCEPT !.ran = Ran("ui", "login", TRUE)]
                    ELSE [gui EXCEPT !.ran = Ran("ui", "login", TRUE)]
  /\ UNCHANGED api_client

\* RegisterFrame.register, the command of the INITIALIZE button
RegisterFrame_register(data) ==
  /\ gui.frame = "register"
  /\ IF data.username = "" \/ data.email = "" \/ data.password = ""
     THEN /\ gui' = [gui EXCEPT !.ran = Ran("ui", "none", TRUE)]
          /\ UNCHANGED backend
     ELSE /\ ds_register(data)
          /\ gui' = IF resp'.body.ok
                    THEN [switch_frame(gui, "login") EXCEPT !.ran = Ran("ui", "register", TRUE)]
                    ELSE [gui EXCEPT !.ran = Ran("ui", "register", TRUE)]
  /\ UNCHANGED api_client

\* JobPortalApp.show_register, JobPortalApp.show_login: the links between the two frames
show_register ==
  /\ gui.frame = "login"
  /\ gui' = [switch_frame(gui, "register") EXCEPT !.ran = Ran("ui", "none", TRUE)]
  /\ UNCHANGED <<backend, api_client>>

show_login ==
  /\ gui.frame = "register"
  /\ gui' = [switch_frame(gui, "login") EXCEPT !.ran = Ran("ui", "none", TRUE)]
  /\ UNCHANGED <<backend, api_client>>

\* DashboardFrame.logout, the command of the TERMINATE SESSION button
DashboardFrame_logout ==
  /\ gui.frame = "dashboard"
  /\ logout
  /\ gui' = [switch_frame(gui, "login") EXCEPT !.ran = Ran("ui", "logout", TRUE)]
  /\ UNCHANGED api_client

\* DashboardFrame.show_tasks, the command of the OPERATIONS button
show_tasks ==
  /\ gui.frame = "dashboard"
  /\ gui' = [loading_tasks(gui) EXCEPT !.ran = Ran("ui", "none", TRUE)]
  /\ UNCHANGED <<backend, api_client>>

\* a worker thread that has made its call hands a callback to the main loop with
\* self.after(0, ...); on a destroyed frame that raises in the thread and schedules nothing
finished(g, i, callback) ==
  [g EXCEPT !.threads = Remove(@, i),
            !.after = IF g.threads[i].orphan THEN @ ELSE Append(@, callback)]

\* DashboardFrame._fetch_tasks_thread
_fetch_tasks_thread(i) ==
  /\ i \in DOMAIN gui.threads
  /\ gui.threads[i].target = "_fetch_tasks_thread"
  /\ ds_get_tasks
  /\ gui' = [finished(gui, i, [fn |-> "_update_tasks_ui",
                               data |-> [k \in DOMAIN resp'.body.tasks |-> resp'.body.tasks[k].id]])
               EXCEPT !.ran = Ran("worker", "get_tasks", FALSE)]
  /\ UNCHANGED api_client

\* DashboardFrame.add_task_dialog: a title was entered
add_task_dialog(title) ==
  /\ gui.frame = "dashboard"
  /\ gui' = [gui EXCEPT !.threads = Append(@, [target |-> "_create_task_thread", arg |-> 0, orphan |-> FALSE]),
                        !.ran = Ran("ui", "none", TRUE)]
  /\ UNCHANGED <<backend, api_client>>

\* DashboardFrame._create_task_thread
_create_task_thread(i, title) ==
  /\ i \in DOMAIN gui.threads
  /\ gui.threads[i].target = "_create_task_thread"
  /\ ds_create_task(title, "Created via Console")
  /\ gui' = [finished(gui, i, [fn |-> IF resp'.body.ok THEN "load_tasks" ELSE "showerror", data |-> <<>>])
               EXCEPT !.ran = Ran("worker", "create_task", FALSE)]
  /\ UNCHANGED api_client

\* DashboardFrame.delete_task, the command of the DELETE button of a card
DashboardFrame_delete_task(task_id) ==
  /\ gui.frame = "dashboard"
  /\ \E k \in DOMAIN gui.content.cards : gui.content.cards[k] = task_id
  /\ gui' = [gui EXCEPT !.threads = Append(@, [target |-> "_delete_task_thread", arg |-> task_id, orphan |-> FALSE]),
                        !.ran = Ran("ui", "none", TRUE)]
  /\ UNCHANGED <<backend, api_client>>

\* DashboardFrame._delete_task_thread
_delete_task_thread(i) ==
  /\ i \in DOMAIN gui.threads
  /\ gui.threads[i].target = "_delete_task_thread"
  /\ ds_delete_task(gui.threads[i].arg)
  /\ gui' = [finished(gui, i, [fn |-> IF resp'.body.ok THEN "load_tasks" ELSE "showerror", data |-> <<>>])
               EXCEPT !.ran = Ran("worker", "delete_task", FALSE)]
  /\ UNCHANGED api_client

\* the main loop runs the callback scheduled first: _update_tasks_ui draws the cards,
\* load_tasks starts the next fetch, showerror opens a message box
mainloop ==
  /\ gui.after # <<>>
  /\ LET callback == Head(gui.after)
         g == [gui EXCEPT !.after = Tail(@), !.ran = Ran("ui", "none", TRUE)]
     IN gui' = IF callback.fn = "_update_tasks_ui"
               THEN [g EXCEPT !.content = [loading |-> FALSE, cards |-> callback.data]]
               ELSE IF callback.fn = "load_tasks" THEN loading_tasks(g)
               ELSE g
  /\ UNCHANGED <<backend, api_client>>

(***************************************************************************)
(* The environment.                                                        *)
(***************************************************************************)
\* time passes
Tick ==
  /\ now < MaxTicks * TickHours
  /\ now' = now + TickHours
  /\ UNCHANGED <<store, issued, inflight, current_user_id, desktop, req, resp>>

Init ==
  /\ users = {} /\ tasks = {} /\ orders = {}
  /\ nextUserId = 1 /\ nextTaskId = 1 /\ nextOrderId = 1
  /\ now = 0
  /\ issued = {}
  /\ inflight = [w \in Workers |-> [via |-> "idle", data |-> EmptyBody]]
  /\ current_user_id = 0
  /\ api_client = APIClient
  /\ gui = JobPortalApp
  /\ req = NoRequest
  /\ resp = Resp("none", 0, Msg(""))

(***************************************************************************)
(* The authentication endpoints under a running clock.                     *)
(***************************************************************************)
NextAuth ==
  \/ \E data \in RegisterBodies : register(data) /\ UNCHANGED desktop
  \/ \E data \in DsRegisterArgs : ds_register(data) /\ UNCHANGED desktop
  \/ \E data \in LoginBodies : login(data) /\ UNCHANGED desktop
  \/ \E h \in Headers : me(h) /\ UNCHANGED desktop
  \/ Tick

SpecAuth == Init /\ [][NextAuth]_vars

(***************************************************************************)
(* Concurrent registrations: each worker may be suspended between the      *)
(* existence check and the insert.                                         *)
(***************************************************************************)
NextRace ==
  \/ \E w \in Workers, data \in RegisterBodies : register_begin(w, data) /\ UNCHANGED desktop
  \/ \E w \in Workers : register_end(w) /\ UNCHANGED desktop
  \/ \E w \in Workers, data \in DsRegisterArgs : ds_register_begin(w, data) /\ UNCHANGED desktop
  \/ \E w \in Workers : ds_register_end(w) /\ UNCHANGED desktop

SpecRace == Init /\ [][NextRace]_vars

(***************************************************************************)
(* The Resource API: requests served one after the other.                  *)
(***************************************************************************)
Next ==
  \/ \E data \in AccountBodies : nextUserId <= MaxUsers /\ register(data) /\ UNCHANGED desktop
  \/ \E data \in LoginBodies : login(data) /\ UNCHANGED desktop
  \/ \E data \in TaskBodies : nextTaskId <= MaxTasks /\ create_task(data) /\ UNCHANGED desktop
  \/ \E id \in TaskIds : get_task(id) /\ UNCHANGED desktop
  \/ \E id \in TaskIds, data \in TaskBodies : update_task(id, data) /\ UNCHANGED desktop
  \/ \E id \in TaskIds : delete_task(id) /\ UNCHANGED desktop
  \/ \E data \in OrderBodies : nextOrderId <= MaxOrders /\ create_order(data) /\ UNCHANGED desktop
  \/ \E id \in OrderIds : get_order(id) /\ UNCHANGED desktop
  \/ \E id \in OrderIds, data \in OrderBodies : update_order(id, data) /\ UNCHANGED desktop
  \/ \E id \in OrderIds : delete_order(id) /\ UNCHANGED desktop

Spec == Init /\ [][Next]_vars

(***************************************************************************)
(* Accounts, their records and their tokens beside deletions of users.     *)
(***************************************************************************)
NextAdmin ==
  \/ \E data \in AccountBodies : nextUserId <= MaxUsers /\ register(data) /\ UNCHANGED desktop
  \/ \E data \in LoginBodies : login(data) /\ UNCHANGED desktop
  \/ \E h \in Headers : me(h) /\ UNCHANGED desktop
  \/ \E data \in TaskBodies : nextTaskId <= MaxTasks /\ create_task(data) /\ UNCHANGED desktop
  \/ \E data \in OrderBodies : nextOrderId <= MaxOrders /\ create_order(data) /\ UNCHANGED desktop
  \/ \E id \in UserIds : delete_user(id) /\ UNCHANGED desktop
  \/ \E args \in OwnerArgs : get_tasks(args) /\ UNCHANGED desktop
  \/ \E args \in OwnerArgs : get_orders(args) /\ UNCHANGED desktop

SpecAdmin == Init /\ [][NextAdmin]_vars

(***************************************************************************)
(* Concurrent requests to POST /auth/register alone.                       *)
(***************************************************************************)
NextRegister ==
  \/ \E w \in Workers, data \in RegisterBodies : register_begin(w, data) /\ UNCHANGED desktop
  \/ \E w \in Workers : register_end(w) /\ UNCHANGED desktop

SpecRegister == Init /\ [][NextRegister]_vars

(***************************************************************************)
(* Records created, reassigned, fetched, listed and deleted.               *)
(***************************************************************************)
NextDelete ==
  \/ \E data \in Accounts : nextUserId <= MaxUsers /\ register(data) /\ UNCHANGED desktop
  \/ \E data \in ListedTaskBodies : nextTaskId <= MaxListed /\ create_task(data) /\ UNCHANGED desktop
  \/ \E data \in ListedOrderBodies : nextOrderId <= MaxListed /\ create_order(data) /\ UNCHANGED desktop
  \/ \E id \in 1..MaxListed : get_task(id) /\ UNCHANGED desktop
  \/ \E id \in 1..MaxListed, data \in OwnerBodies : update_task(id, data) /\ UNCHANGED desktop
  \/ \E id \in 1..MaxListed : delete_task(id) /\ UNCHANGED desktop
  \/ \E id \in 1..MaxListed : get_order(id) /\ UNCHANGED desktop
  \/ \E id \in 1..MaxListed, data \in OwnerBodies : update_order(id, data) /\ UNCHANGED desktop
  \/ \E id \in 1..MaxListed : delete_order(id) /\ UNCHANGED desktop
  \/ \E args \in OwnerArgs : get_tasks(args) /\ UNCHANGED desktop
  \/ \E args \in OwnerArgs : get_orders(args) /\ UNCHANGED desktop

SpecDelete == Init /\ [][NextDelete]_vars

(***************************************************************************)
(* The list endpoints over tables of several records.                      *)
(***************************************************************************)
NextList ==
  \/ \E data \in Accounts : nextUserId <= MaxUsers /\ register(data) /\ UNCHANGED desktop
  \/ \E data \in ListedTaskBodies : nextTaskId <= MaxListed /\ create_task(data) /\ UNCHANGED desktop
  \/ \E data \in ListedOrderBodies : nextOrderId <= MaxListed /\ create_order(data) /\ UNCHANGED desktop
  \/ \E args \in ListArgs : get_tasks(args) /\ UNCHANGED desktop
  \/ \E args \in ListArgs : get_orders(args) /\ UNCHANGED desktop

SpecList == Init /\ [][NextList]_vars

(***************************************************************************)
(* The task and order endpoints called by anyone.                          *)
(***************************************************************************)
NextCaller ==
  \/ \E data \in Accounts : nextUserId <= MaxUsers /\ register(data) /\ UNCHANGED desktop
  \/ \E h \in Callers, data \in ListedTaskBodies : nextTaskId <= MaxTasks /\ dispatch(h, create_task(data)) /\ UNCHANGED desktop
  \/ \E h \in Callers, id \in TaskIds : dispatch(h, get_task(id)) /\ UNCHANGED desktop
  \/ \E h \in Callers, id \in TaskIds, data \in OwnerBodies : dispatch(h, update_task(id, data)) /\ UNCHANGED desktop
  \/ \E h \in Callers, id \in TaskIds : dispatch(h, delete_task(id)) /\ UNCHANGED desktop
  \/ \E h \in Callers, args \in OwnerArgs : dispatch(h, get_tasks(args)) /\ UNCHANGED desktop
  \/ \E h \in Callers, data \in ListedOrderBodies : nextOrderId <= MaxOrders /\ dispatch(h, create_order(data)) /\ UNCHANGED desktop
  \/ \E h \in Callers, id \in OrderIds : dispatch(h, get_order(id)) /\ UNCHANGED desktop
  \/ \E h \in Callers, id \in OrderIds, data \in OwnerBodies : dispatch(h, update_order(id, data)) /\ UNCHANGED desktop
  \/ \E h \in Callers, id \in OrderIds : dispatch(h, delete_order(id)) /\ UNCHANGED desktop
  \/ \E h \in Callers, args \in OwnerArgs : dispatch(h, get_orders(args)) /\ UNCHANGED desktop

SpecCaller == Init /\ [][NextCaller]_vars

(***************************************************************************)
(* Writes that the database refuses: a lost registration race, a record    *)
(* without a stored owner.                                                 *)
(***************************************************************************)
NextTx ==
  \/ \E w \in Workers, data \in CompleteRegisterBodies : register_begin(w, data) /\ UNCHANGED desktop
  \/ \E w \in Workers : register_end(w) /\ UNCHANGED desktop
  \/ \E data \in ListedTaskBodies : nextTaskId <= MaxTasks /\ create_task(data) /\ UNCHANGED desktop
  \/ \E id \in TaskIds : get_task(id) /\ UNCHANGED desktop
  \/ \E id \in TaskIds, data \in RetitleBodies : update_task(id, data) /\ UNCHANGED desktop
  \/ \E data \in ListedOrderBodies : nextOrderId <= MaxOrders /\ create_order(data) /\ UNCHANGED desktop
  \/ \E id \in OrderIds : get_order(id) /\ UNCHANGED desktop
  \/ \E id \in OrderIds, data \in OwnerBodies : update_order(id, data) /\ UNCHANGED desktop

SpecTx == Init /\ [][NextTx]_vars

(***************************************************************************)
(* The local facade alone: accounts are registered, sessions opened and    *)
(* closed, and each session lists, creates and deletes records.            *)
(***************************************************************************)
NextLocal ==
  \/ \E data \in Accounts : nextUserId <= MaxUsers /\ ds_register(data) /\ UNCHANGED desktop
  \/ \E email \in Emails, password \in Passwords : ds_login(email, password) /\ UNCHANGED desktop
  \/ logout /\ UNCHANGED desktop
  \/ ds_get_tasks /\ UNCHANGED desktop
  \/ nextTaskId <= MaxListed /\ ds_create_task("t1", "Created via Console") /\ UNCHANGED desktop
  \/ \E id \in 1..(MaxListed + 1) : ds_delete_task(id) /\ UNCHANGED desktop
  \/ ds_get_orders /\ UNCHANGED desktop
  \/ nextOrderId <= MaxOrders /\ ds_create_order("p1", 5, 1) /\ UNCHANGED desktop

SpecLocal == Init /\ [][NextLocal]_vars

(***************************************************************************)
(* The remote facade: one desktop client whose HTTP calls are answered,    *)
(* refused or timed out, beside the requests of other clients.             *)
(***************************************************************************)
NextRemote ==
  \/ \E data \in Accounts, net \in Net : nextUserId <= MaxUsers /\ api_register(data, net)
  \/ \E net \in Net : api_register_get_me(net)
  \/ \E email \in Emails, password \in Passwords, net \in Net : api_login(email, password, net)
  \/ \E net \in Net : api_login_get_me(net)
  \/ \E net \in Net : api_get_me(net)
  \/ \E net \in Net : api_get_tasks(1, 10, net)
  \/ \E net \in Net : nextTaskId <= MaxTasks /\ api_create_task("t1", "Created via Console", net)
  \/ \E id \in TaskIds, net \in Net : api_delete_task(id, net)
  \/ \E net \in Net : api_get_orders(1, 10, net)
  \/ \E net \in Net : nextOrderId <= MaxOrders /\ api_create_order("p1", 5, 1, net)
  \/ \E data \in ListedTaskBodies : nextTaskId <= MaxTasks /\ create_task(data) /\ UNCHANGED desktop

SpecRemote == Init /\ [][NextRemote]_vars

(***************************************************************************)
(* Tokens over time: accounts registered through the API, logins, and the  *)
(* clock.                                                                  *)
(***************************************************************************)
NextTokens ==
  \/ \E data \in RegisterBodies : register(data) /\ UNCHANGED desktop
  \/ \E data \in LoginBodies : login(data) /\ UNCHANGED desktop
  \/ \E h \in Headers : me(h) /\ UNCHANGED desktop
  \/ Tick

SpecTokens == Init /\ [][NextTokens]_vars

(***************************************************************************)
(* The two facades side by side on one database, all HTTP calls answered:  *)
(* each registers an account of its own and then, without a login, lists   *)
(* and creates tasks and orders.                                           *)
(***************************************************************************)
RemoteAccount == [username |-> "alice", email |-> "a@x", password |-> "pw1"]
LocalAccount == [username |-> "bob", email |-> "b@x", password |-> "pw2"]

NextTwin ==
  \/ nextUserId <= MaxUsers /\ api_register(RemoteAccount, "ok")
  \/ api_register_get_me("ok")
  \/ api_get_tasks(1, 10, "ok")
  \/ nextTaskId <= MaxListed /\ api_create_task("t1", "Created via Console", "ok")
  \/ nextUserId <= MaxUsers /\ ds_register(LocalAccount) /\ UNCHANGED desktop
  \/ ds_get_tasks /\ UNCHANGED desktop
  \/ nextTaskId <= MaxListed /\ ds_create_task("t1", "Created via Console") /\ UNCHANGED desktop
  \/ api_get_orders(1, 10, "ok")
  \/ nextOrderId <= MaxOrders /\ api_create_order("p1", 5, 1, "ok")
  \/ ds_get_orders /\ UNCHANGED desktop
  \/ nextOrderId <= MaxOrders /\ ds_create_order("p1", 5, 1) /\ UNCHANGED desktop

SpecTwin == Init /\ [][NextTwin]_vars

(***************************************************************************)
(* The desktop window in use: the buttons of its frames are pressed, its   *)
(* worker threads run in any order, its main loop runs the callbacks.      *)
(***************************************************************************)
\* what the forms are submitted with: the accounts, and a form with an empty field
Forms == Accounts \cup {[username |-> "", email |-> "a@x", password |-> "pw1"]}

NextGui ==
  \/ \E email \in Emails \cup {""}, password \in Passwords :
        Len(gui.threads) < MaxThreads /\ LoginFrame_login(email, password)
  \/ \E data \in Forms : nextUserId <= MaxUsers /\ RegisterFrame_register(data)
  \/ show_register
  \/ show_login
  \/ DashboardFrame_logout
  \/ Len(gui.threads) < MaxThreads /\ show_tasks
  \/ \E i \in 1..MaxThreads : Len(gui.after) < MaxThreads /\ _fetch_tasks_thread(i)
  \/ Len(gui.threads) < MaxThreads /\ nextTaskId <= MaxTasks /\ add_task_dialog("t1")
  \/ \E i \in 1..MaxThreads : Len(gui.after) < MaxThreads /\ nextTaskId <= MaxTasks /\ _create_task_thread(i, "t1")
  \/ \E id \in TaskIds : Len(gui.threads) < MaxThreads /\ DashboardFrame_delete_task(id)
  \/ \E i \in 1..MaxThreads : Len(gui.after) < MaxThreads /\ _delete_task_thread(i)
  \/ Len(gui.threads) < MaxThreads /\ mainloop

SpecGui == Init /\ [][NextGui]_vars

(***************************************************************************)
(* The claims.                                                             *)
(***************************************************************************)
\* a step in which a register request arrives and is run up to its existence check
\* (no suspended register call is resumed)
RegisterArrives ==
  /\ req'.op = "register"
  /\ \A w \in Workers : inflight[w].via = "api" => inflight'[w] = inflight[w]

\* the request of this step names the username or the email of a stored user
NamesStoredUser ==
  \E u \in users : Get(req'.data, "username") = u.username \/ Get(req'.data, "email") = u.email

\* C1, as stated: once a user is stored, every later register request that names its
\* username or its email is answered 409 and stores nothing, whatever its other fields are
C1_ConflictWhateverTheFields ==
  [][RegisterArrives /\ NamesStoredUser
       => resp'.status = 409 /\ users' = users /\ inflight' = inflight]_vars

\* C1, amended: such a request is answered 409 when it carries a non-empty username,
\* email and password, and 400 when it lacks one of them; in both cases it stores nothing
C1_ConflictWhenComplete ==
  [][RegisterArrives /\ NamesStoredUser
       => /\ resp'.status = (IF \A k \in {"username", "email", "password"} :
                                   k \in DOMAIN req'.data /\ req'.data[k] # ""
                            THEN 409 ELSE 400)
          /\ users' = users
          /\ inflight' = inflight]_vars

\* a 409 for a request that shares only its email with the stored user, and not its password
C1_Witness ==
  /\ resp = Resp("register", 409, Msg("User already exists"))
  /\ \E u \in users :
       /\ u.email = req.data.email
       /\ u.username # req.data.username
       /\ ~check_password_hash(u.password_hash, req.data.password)

MePresentsIssuedToken ==
  /\ req.op = "me" /\ resp.op = "me"
  /\ req.auth.scheme = "Bearer"
  /\ req.auth.token \in issued

\* C3: a token issued by register or login embeds the id of the user it was issued for and
\* expires 24 hours after its issue; me accepts it, and answers with that user's profile, at
\* every time before that, and rejects it with 401 'Token expired' at every time after
C3_TokenValidFor24Hours ==
  /\ (req.op \in {"register", "login"} /\ resp.op = req.op /\ resp.status \in {200, 201})
       => /\ \E u \in users : u.email = req.data.email /\ resp.body.token.user_id = u.id
          /\ resp.body.token.exp = req.at + 24
  /\ MePresentsIssuedToken
       => /\ req.at < req.auth.token.exp
               => /\ resp.status = 200
                  /\ resp.body.id = req.auth.token.user_id
                  /\ \E u \in users : u.id = resp.body.id /\ u.username = resp.body.username
          /\ req.at > req.auth.token.exp
               => resp = Resp("me", 401, Msg("Token expired"))

\* a token still accepted one tick before its expiry ...
C3_WitnessAccepted ==
  /\ MePresentsIssuedToken
  /\ req.at = req.auth.token.exp - TickHours
  /\ resp.status = 200

\* ... and rejected one tick after it
C3_Witness ==
  /\ MePresentsIssuedToken
  /\ req.at = req.auth.token.exp + TickHours
  /\ resp = Resp("me", 401, Msg("Token expired"))

\* C5: me answers 401, and returns no profile, when the Authorization header is absent,
\* is not of the form 'Bearer <token>', or carries a token that is expired or that the
\* server's key did not sign for that payload
C5_MeRejectsBadTokens ==
  (/\ req.op = "me" /\ resp.op = "me"
   /\ \/ req.auth.scheme # "Bearer"
      \/ req.auth.token.sig # <<SECRET_KEY, req.auth.token.user_id, req.auth.token.exp>>
      \/ req.auth.token.exp <= req.at)
    => resp.status = 401 /\ DOMAIN resp.body = {"msg"}

\* a signed token whose payload was made to name another stored user is rejected
C5_Witness ==
  /\ req.op = "me" /\ resp = Resp("me", 401, Msg("Invalid token"))
  /\ req.auth.scheme = "Bearer"
  /\ req.auth.token.exp > req.at
  /\ \E t \in issued : t.sig = req.auth.token.sig /\ t.user_id # req.auth.token.user_id
  /\ \E u \in users : u.id = req.auth.token.user_id

\* every string a response of register, login or me carries
ResponseStrings ==
  {resp.body[k] : k \in DOMAIN resp.body \cap {"msg", "username", "email", "role", "created_at"}}

\* C7: every stored credential is an output of the hash operation, verifies the password
\* it was made from and is no plaintext password; and no response of register, login or
\* me carries a plaintext password or a stored credential
C7_CredentialsStayHashed ==
  /\ \A u \in users :
       /\ \E p \in Passwords, salt \in Salts :
            u.password_hash = "pbkdf2:sha256$" \o salt \o "$H(" \o salt \o "," \o p \o ")"
       /\ u.password_hash \notin Passwords
  /\ (req.op \in {"register", "ds_register"} /\ resp.op = req.op
        /\ (resp.status = 201 \/ (resp.status = 0 /\ resp.body.ok)))
       => \E u \in users :
            /\ u.username = req.data.username
            /\ u.password_hash # req.data.password
            /\ check_password_hash(u.password_hash, req.data.password)
  /\ resp.op \in {"register", "login", "me"}
       => /\ DOMAIN resp.body \subseteq {"msg", "token", "id", "username", "email", "role", "created_at"}
          /\ "token" \in DOMAIN resp.body => DOMAIN resp.body.token = {"user_id", "exp", "sig"}
          /\ \A v \in ResponseStrings :
               v \notin Passwords /\ \A u \in users : v # u.password_hash

\* a profile is returned while two users registered through either facade are stored
C7_Witness ==
  /\ Cardinality(users) = 2
  /\ resp.op = "me" /\ resp.status = 200
  /\ \E u \in users : u.id # resp.body.id

\* C4: a login that carries an email and a password is answered 401 when no stored user
\* holds the email or the password does not verify against that user's credential, and
\* otherwise 200 with a token embedding the id of the user holding the email; no login
\* changes the stored users, tasks or orders
C4_LoginOutcomes ==
  [][req'.op = "login"
       => /\ UNCHANGED <<users, tasks, orders>>
          /\ ({"email", "password"} \subseteq DOMAIN req'.data /\ req'.data.email # "" /\ req'.data.password # "")
               => LET holders == {u \in users : u.email = req'.data.email}
                      verified == {u \in holders : \E salt \in Salts :
                                     u.password_hash = generate_password_hash(req'.data.password, salt)}
                  IN IF verified = {}
                     THEN resp'.status = 401
                     ELSE /\ resp'.status = 200
                          /\ \E u \in verified : resp'.body.token.user_id = u.id]_vars

\* a login is answered 200 for one of two stored users while a task and an order are stored
C4_Witness ==
  /\ req.op = "login" /\ resp.status = 200
  /\ Cardinality(users) = 2
  /\ tasks # {} /\ orders # {}

\* C6: me with a valid, unexpired token embedding user id i answers 200 with the profile
\* (id, username, email, role, created_at) of the stored user whose id is i, and 404 when
\* no user with id i is stored any more
C6_MeReturnsTokenUser ==
  (MePresentsIssuedToken /\ req.at < req.auth.token.exp)
    => LET found == {u \in users : u.id = req.auth.token.user_id}
       IN IF found = {}
          THEN resp.status = 404
          ELSE /\ resp.status = 200
               /\ DOMAIN resp.body = {"id", "username", "email", "role", "created_at"}
               /\ \E u \in found :
                    /\ resp.body.id = u.id
                    /\ resp.body.username = u.username
                    /\ resp.body.email = u.email
                    /\ resp.body.role = u.role
                    /\ resp.body.created_at = isoformat(u.created_at)

\* the user of the token was deleted while another user is stored: me answers 404
C6_Witness ==
  /\ MePresentsIssuedToken
  /\ resp = Resp("me", 404, Msg("User not found"))
  /\ users # {}

\* field k is absent from the body of the request of this step
Without(k) == k \notin DOMAIN req'.data

\* C8: register without username, email or password, login without email or password,
\* create task without title and create order without product_name or without price are
\* answered 400 and leave the stored users, tasks and orders as they were; a create order
\* with price 0 is not answered 400
C8_RequiredFieldsValidated ==
  [][/\ (\/ req'.op = "register" /\ (Without("username") \/ Without("email") \/ Without("password"))
         \/ req'.op = "login" /\ (Without("email") \/ Without("password"))
         \/ req'.op = "create_task" /\ Without("title")
         \/ req'.op = "create_order" /\ (Without("product_name") \/ Without("price")))
          => resp'.status = 400 /\ UNCHANGED <<users, tasks, orders>>
     /\ (req'.op = "create_order" /\ ~Without("product_name") /\ ~Without("price") /\ req'.data.price = 0)
          => resp'.status # 400]_vars

\* an order with price 0 was created
C8_Witness ==
  /\ req.op = "create_order" /\ resp.status = 201
  /\ \E o \in orders : o.id = resp.body.id /\ o.price = 0

\* C9: every stored task and every stored order has exactly one owning user, and that
\* owner is a stored user
C9_OwnerIsStoredUser ==
  \A r \in tasks \cup orders : Cardinality({u \in users : u.id = r.user_id}) = 1

\* an update that names a user that is not stored was refused, and the task kept its owner
C9_Witness ==
  /\ req.op = "update_task" /\ resp.status = 500
  /\ "user_id" \in DOMAIN req.data
  /\ \E t \in tasks : t.id = req.id /\ t.user_id # req.data.user_id
  /\ orders # {}

\* C10: the price of every stored order is non-negative
C10_PriceNonNegative ==
  \A o \in orders : o.price >= 0

\* the step fetches, by its id, the record the previous request created
FetchesCreated(create, get) ==
  /\ req.op = create /\ resp.op = create /\ resp.status = 201
  /\ req'.op = get /\ req'.id = resp.body.id

\* C11: when create task (or create order) has answered 201 with record r, a get by r.id
\* that is the next request is answered 200 with a record equal to r in every field
C11_RoundTrip ==
  [][/\ FetchesCreated("create_task", "get_task")
          => resp'.status = 200 /\ resp'.body = resp.body
     /\ FetchesCreated("create_order", "get_order")
          => resp'.status = 200 /\ resp'.body = resp.body]_vars

\* a task created with the default status for the second user is fetched, beside an order
C11_Witness ==
  /\ req.op = "get_task" /\ resp.status = 200
  /\ resp.body.status = "pending" /\ resp.body.user_id = 2
  /\ \E t \in tasks : task_to_dict(t) = resp.body
  /\ orders # {}

\* the fields an update of a task, and of an order, can overwrite
TaskAttrs == {"title", "description", "status", "due_date", "user_id"}
OrderAttrs == {"product_name", "quantity", "price", "user_id"}

\* the step is an update by id of a stored row of the table; when it is answered 200 the
\* row holds the supplied value in every field the body names and its prior value in every
\* other field, otherwise it is as it was; every other row of the table is as it was
PartialUpdate(op, table, tableNext, attrs) ==
  (req'.op = op /\ \E old \in table : old.id = req'.id)
    => LET old == CHOOSE r \in table : r.id = req'.id
           F == DOMAIN req'.data \cap attrs
       IN /\ (DOMAIN req'.data # {}
                 /\ ("user_id" \in DOMAIN req'.data => \E u \in users : u.id = req'.data.user_id))
               => resp'.status = 200
          /\ resp'.status = 200
               => \E new \in tableNext :
                    /\ DOMAIN new = DOMAIN old
                    /\ new.id = old.id
                    /\ \A k \in DOMAIN old : new[k] = IF k \in F THEN req'.data[k] ELSE old[k]
          /\ resp'.status # 200 => tableNext = table
          /\ Cardinality({r \in tableNext : r.id = old.id}) = 1
          /\ {r \in tableNext : r.id # old.id} = {r \in table : r.id # old.id}

\* C12: an update by id of a stored task (or order) whose body names the fields F overwrites
\* exactly the fields in F with the supplied values; every other field of the record and
\* every other stored record keeps its value (an update that is refused, for an empty body
\* or an owner that is not stored, overwrites nothing)
C12_PartialUpdate ==
  [][/\ PartialUpdate("update_task", tasks, tasks', TaskAttrs)
     /\ PartialUpdate("update_order", orders, orders', OrderAttrs)
     /\ req'.op = "update_task" => UNCHANGED <<users, orders>>
     /\ req'.op = "update_order" => UNCHANGED <<users, tasks>>]_vars

\* an update that names the status alone was applied to a task, beside a stored order
C12_Witness ==
  /\ req.op = "update_task" /\ resp.status = 200
  /\ DOMAIN req.data = {"status"}
  /\ \E t \in tasks : t.id = req.id /\ t.status = req.data.status /\ t.title = "t1"
  /\ orders # {}

\* the step is a get, update or delete by an id that no row of the table has
NamesAbsent(ops, table) ==
  req'.op \in ops /\ \A r \in table : r.id # req'.id

\* C13: get, update and delete by id of a task or order that is not stored are answered 404
\* 'Resource not found', whatever the body of the request, and leave every stored record
\* as it was
C13_AbsentIsNotFound ==
  [][(\/ NamesAbsent({"get_task", "update_task", "delete_task"}, tasks)
      \/ NamesAbsent({"get_order", "update_order", "delete_order"}, orders))
       => /\ resp'.status = 404
          /\ resp'.body = Msg("Resource not found")
          /\ UNCHANGED <<users, tasks, orders>>]_vars

\* an update with an empty body of an order id that is not stored is answered 404, while
\* another order and a task are stored
C13_Witness ==
  /\ req.op = "update_order" /\ resp.status = 404
  /\ DOMAIN req.data = {}
  /\ orders # {} /\ tasks # {}
  /\ \A o \in orders : o.id # req.id

\* the decimal numerals of the positive numbers the list requests carry
Numeral == (<<"1">> :> 1) @@ (<<"2">> :> 2) @@ (<<"3">> :> 3)

\* the request handled last is a list request, and resp is its response
Listed(op) == req.op = op /\ resp.op = op

\* the items of a list response
Items(op) == IF op = "get_tasks" THEN resp.body.tasks ELSE resp.body.orders

\* the stored rows a list request asks for: all, or those of the owner it names
Matching(table) ==
  IF "user_id" \in DOMAIN req.args
  THEN {r \in table : r.user_id = Numeral[req.args.user_id]}
  ELSE table

\* the least number of pages of n records that hold N records
PagesOf(N, n) == CHOOSE k \in 0..N : k * n >= N /\ (k = 0 \/ (k - 1) * n < N)

\* a list request with page p >= 1 and per_page n >= 1 is answered 200 with the number N of
\* matching rows as total, ceil(N / n) as pages and min(n, max(0, N - (p-1)*n)) items, which
\* are distinct matching rows
PageServed(op, table, to_dict(_)) ==
  (/\ Listed(op)
   /\ {"page", "per_page"} \subseteq DOMAIN req.args
   /\ req.args.page \in DOMAIN Numeral /\ req.args.per_page \in DOMAIN Numeral)
    => LET p == Numeral[req.args.page]
           n == Numeral[req.args.per_page]
           N == Cardinality(Matching(table))
           rest == IF N - (p - 1) * n > 0 THEN N - (p - 1) * n ELSE 0
       IN /\ resp.status = 200
          /\ resp.body.total = N
          /\ resp.body.pages = PagesOf(N, n)
          /\ Len(Items(op)) = (IF n < rest THEN n ELSE rest)
          /\ \A i \in 1..Len(Items(op)) : \E r \in Matching(table) : Items(op)[i] = to_dict(r)
          /\ \A i, j \in 1..Len(Items(op)) : Items(op)[i] = Items(op)[j] => i = j

\* C16: list (tasks or orders) with page p >= 1 and per_page n >= 1 over the N stored
\* records that match the optional owner filter returns total = N, pages = ceil(N / n) and
\* exactly min(n, max(0, N - (p-1)*n)) items, all of which match the owner filter
C16_PageOfMatchingRecords ==
  /\ PageServed("get_tasks", tasks, task_to_dict)
  /\ PageServed("get_orders", orders, order_to_dict)

\* the first page of one record of the tasks of the second user is listed while a task of
\* the first user is stored too: one matching record, one page, one item
C16_Witness ==
  /\ Listed("get_tasks")
  /\ req.args = [page |-> <<"1">>, per_page |-> <<"1">>, user_id |-> <<"2">>]
  /\ Cardinality(tasks) = 2
  /\ resp.body.total = 1 /\ resp.body.pages = 1
  /\ Len(resp.body.tasks) = 1 /\ resp.body.tasks[1].user_id = 2

\* a list request for a page p >= 1 beyond the last page of the matching records, with
\* per_page a positive number or absent (10), is answered 200 with no items, the number of
\* matching records as total and the number of their pages as pages
BeyondLastPage(op, table) ==
  (/\ Listed(op)
   /\ "page" \in DOMAIN req.args /\ req.args.page \in DOMAIN Numeral
   /\ "per_page" \in DOMAIN req.args => req.args.per_page \in DOMAIN Numeral)
    => LET p == Numeral[req.args.page]
           n == IF "per_page" \in DOMAIN req.args THEN Numeral[req.args.per_page] ELSE 10
           N == Cardinality(Matching(table))
       IN p > PagesOf(N, n)
            => /\ resp.status = 200
               /\ Items(op) = <<>>
               /\ resp.body.total = N
               /\ resp.body.pages = PagesOf(N, n)

\* C17: list (tasks or orders) never fails: every list request is answered 200, and for
\* every page number greater than the number of available pages the answer carries an empty
\* item list and the true total and pages values
C17_BeyondLastPageIsEmpty ==
  /\ \A op \in {"get_tasks", "get_orders"} : Listed(op) => resp.status = 200
  /\ BeyondLastPage("get_tasks", tasks)
  /\ BeyondLastPage("get_orders", orders)

\* page 3 of two stored orders, one to a page: no items, total 2, pages 2
C17_Witness ==
  /\ Listed("get_orders")
  /\ req.args = [page |-> <<"3">>, per_page |-> <<"1">>]
  /\ Cardinality(orders) = 2
  /\ resp = Resp("get_orders", 200, [orders |-> <<>>, total |-> 2, pages |-> 2, current_page |-> 3])

\* the value of a query parameter is no positive number: it is absent, or is not a number,
\* or is zero or negative
AbsentOrInvalid(key) ==
  key \notin DOMAIN req.args \/ req.args[key] \notin DOMAIN Numeral

\* C18: the pagination parameters list uses and reports are positive: when page is absent
\* or invalid (not a number, zero or negative) page 1 is served and current_page is 1, and
\* otherwise current_page is the page asked for
C18_PositivePagination ==
  \A op \in {"get_tasks", "get_orders"} :
    Listed(op)
      => /\ resp.body.current_page >= 1
         /\ resp.body.current_page = (IF AbsentOrInvalid("page") THEN 1 ELSE Numeral[req.args.page])

\* id i was assigned to a row of the table and no row has it: the row was deleted
Gone(table, next, i) == i < next /\ \A r \in table : r.id # i

\* a delete by id answered 200 removes the row with that id and no other; a deleted id stays
\* deleted; get, update and delete of a deleted id are answered 404; no list shows it
DeletedForGood(get, update, delete, list, table, tableNext, next, nextNext) ==
  /\ (req'.op = delete /\ resp'.status = 200)
       => /\ \E r \in table : r.id = req'.id /\ tableNext = table \ {r}
          /\ Gone(tableNext, nextNext, req'.id)
  /\ \A i \in 1..MaxListed : Gone(table, next, i) => Gone(tableNext, nextNext, i)
  /\ (req'.op \in {get, update, delete} /\ Gone(table, next, req'.id))
       => resp'.status = 404
  /\ req'.op = list
       => LET items == IF list = "get_tasks" THEN resp'.body.tasks ELSE resp'.body.orders
          IN \A k \in 1..Len(items) : ~Gone(table, next, items[k].id)

\* C14: a delete by id of a stored task (or order) removes that record for good and no
\* other record: every later get, update or delete of its id, a second delete included, is
\* answered 404, and no later list shows it
C14_DeletedForGood ==
  [][/\ DeletedForGood("get_task", "update_task", "delete_task", "get_tasks",
                       tasks, tasks', nextTaskId, nextTaskId')
     /\ DeletedForGood("get_order", "update_order", "delete_order", "get_orders",
                       orders, orders', nextOrderId, nextOrderId')
     /\ req'.op = "delete_task" => UNCHANGED <<users, orders>>
     /\ req'.op = "delete_order" => UNCHANGED <<users, tasks>>]_vars

\* a delete of the id of a deleted task is answered 404 while the task created after it
\* and an order are stored
C14_Witness ==
  /\ req.op = "delete_task" /\ resp.status = 404
  /\ Gone(tasks, nextTaskId, req.id)
  /\ \E t \in tasks : t.id > req.id
  /\ orders # {}

\* the rows of a table that the user with id i owns
OwnedBy(table, i) == {r \in table : r.user_id = i}

\* the step lists the table filtered on the id of a user that is not stored
ListsOfAbsentUser(list) ==
  /\ req'.op = list
  /\ "user_id" \in DOMAIN req'.args
  /\ \A u \in users : u.id # Numeral[req'.args.user_id]

\* C15: deleting a user removes every task and every order the user owns and nothing else;
\* afterwards the lists of tasks and of orders filtered on the user's id are empty
C15_DeleteUserCascades ==
  [][/\ req'.op = "delete_user"
          => /\ \A u \in users' : u.id # req'.id
             /\ OwnedBy(tasks', req'.id) = {} /\ OwnedBy(orders', req'.id) = {}
             /\ tasks' = tasks \ OwnedBy(tasks, req'.id)
             /\ orders' = orders \ OwnedBy(orders, req'.id)
             /\ users' = {u \in users : u.id # req'.id}
     /\ ListsOfAbsentUser("get_tasks")
          => resp'.status = 200 /\ resp'.body.tasks = <<>> /\ resp'.body.total = 0
     /\ ListsOfAbsentUser("get_orders")
          => resp'.status = 200 /\ resp'.body.orders = <<>> /\ resp'.body.total = 0]_vars

\* the orders of a deleted user are listed: none, although an order was created, while the
\* task of the other user is still stored
C15_Witness ==
  /\ req.op = "get_orders" /\ resp.op = "get_orders"
  /\ "user_id" \in DOMAIN req.args
  /\ \A u \in users : u.id # Numeral[req.args.user_id]
  /\ Numeral[req.args.user_id] < nextUserId
  /\ resp.body.orders = <<>>
  /\ nextOrderId > 1 /\ orders = {}
  /\ tasks # {}

\* the step of this request is the step the endpoint takes for the caller with header h:
\* the same response and the same stored state
SameFor(h) ==
  /\ req'.op = "create_task" => dispatch(h, create_task(req'.data))
  /\ req'.op = "get_task" => dispatch(h, get_task(req'.id))
  /\ req'.op = "update_task" => dispatch(h, update_task(req'.id, req'.data))
  /\ req'.op = "delete_task" => dispatch(h, delete_task(req'.id))
  /\ req'.op = "get_tasks" => dispatch(h, get_tasks(req'.args))
  /\ req'.op = "create_order" => dispatch(h, create_order(req'.data))
  /\ req'.op = "get_order" => dispatch(h, get_order(req'.id))
  /\ req'.op = "update_order" => dispatch(h, update_order(req'.id, req'.data))
  /\ req'.op = "delete_order" => dispatch(h, delete_order(req'.id))
  /\ req'.op = "get_orders" => dispatch(h, get_orders(req'.args))

\* C19: the response and the resulting stored state of every task and order endpoint
\* (list, create, get, update, delete) are the same whoever calls: with no token, with a
\* token of the record's owner and with a token of any other user
C19_OutcomeIgnoresCaller ==
  [][\A h \in Callers : SameFor(h)]_vars

\* the task of one user was reassigned to the other, and the order of a user was deleted,
\* by a request that any of the callers may have sent
C19_Witness ==
  /\ req.op = "update_task" /\ resp.status = 200
  /\ Cardinality(users) = 2
  /\ \E t \in tasks : t.id = req.id /\ t.user_id = req.data.user_id /\ t.user_id = 2
  /\ orders = {} /\ nextOrderId > 1

\* the write of the request of this step is one the database refuses: an insert of a user
\* whose username or email is stored, or a task or order whose owner is not a stored user
WriteRefused ==
  \/ /\ req'.op = "register"
     /\ \E w \in Workers : inflight[w].via = "api" /\ inflight'[w].via = "idle"
     /\ \E u \in users : u.username = req'.data.username \/ u.email = req'.data.email
  \/ /\ \/ req'.op = "create_task" /\ "title" \in DOMAIN req'.data /\ req'.data.title # ""
        \/ /\ req'.op = "create_order" /\ "price" \in DOMAIN req'.data
           /\ "product_name" \in DOMAIN req'.data /\ req'.data.product_name # ""
     /\ "user_id" \in DOMAIN req'.data => \A u \in users : u.id # req'.data.user_id
  \/ /\ \/ req'.op = "update_task" /\ \E t \in tasks : t.id = req'.id
        \/ req'.op = "update_order" /\ \E o \in orders : o.id = req'.id
     /\ "user_id" \in DOMAIN req'.data
     /\ \A u \in users : u.id # req'.data.user_id

\* the step is a get by id answered from the stored rows as they are
ReadsStored(op, table, to_dict(_)) ==
  req'.op = op
    => IF \E r \in table : r.id = req'.id
       THEN resp'.status = 200 /\ \E r \in table : r.id = req'.id /\ resp'.body = to_dict(r)
       ELSE resp'.status = 404

\* C20: a request whose write the database refuses is answered with the generic server
\* error and leaves the stored users, tasks and orders as they were before it; a request is
\* answered with that error only then; and the request after it reads the stored rows
\* unchanged
C20_FailedWriteRolledBack ==
  [][/\ WriteRefused
          => /\ resp' = Resp(req'.op, 500, Msg("Internal server error"))
             /\ UNCHANGED <<users, tasks, orders>>
     /\ resp'.status = 500 => WriteRefused
     /\ resp.status = 500
          => /\ ReadsStored("get_task", tasks, task_to_dict)
             /\ ReadsStored("get_order", orders, order_to_dict)]_vars

\* a registration that lost the race for an email was answered 500 while one user, a task
\* and an order are stored
C20_Witness ==
  /\ req.op = "register" /\ resp = Resp("register", 500, Msg("Internal server error"))
  /\ Cardinality(users) = 1
  /\ \E u \in users : u.email = req.data.email /\ u.username # req.data.username
  /\ tasks # {} /\ orders # {}

\* the request of this step carries a non-empty username, email and password
CompleteRegistration ==
  /\ req'.op = "register"
  /\ \A k \in {"username", "email", "password"} : k \in DOMAIN req'.data /\ req'.data[k] # ""

\* C21: of two register requests that carry the same username or the same email and are
\* processed concurrently, at most one stores a user and is answered 201, and the other is
\* answered 409 in every interleaving: a complete register request that is answered while
\* a user with its username or its email is stored, whether it arrived after that user's
\* insert or had passed its existence check before it, stores nothing and is answered 409
C21_RaceLoserAnsweredConflict ==
  [][CompleteRegistration /\ NamesStoredUser
       => resp'.status = 409 /\ users' = users]_vars

\* C22: the local facade lists only the records of the user logged in, all of them, and
\* stores a created record under that user's id; while nobody is logged in, initially and
\* after logout, a list is answered with the empty collection and a create is answered
\* False and stores nothing
C22_ScopedToSession ==
  [][/\ req'.op = "ds_get_tasks"
          => /\ {resp'.body.tasks[i] : i \in DOMAIN resp'.body.tasks}
                  = {_task_to_dict(t) : t \in {t \in tasks : t.user_id = current_user_id}}
             /\ Len(resp'.body.tasks) = Cardinality({t \in tasks : t.user_id = current_user_id})
             /\ current_user_id = 0 => resp'.body.tasks = <<>>
     /\ req'.op = "ds_get_orders"
          => /\ {resp'.body.orders[i] : i \in DOMAIN resp'.body.orders}
                  = {_order_to_dict(o) : o \in {o \in orders : o.user_id = current_user_id}}
             /\ Len(resp'.body.orders) = Cardinality({o \in orders : o.user_id = current_user_id})
             /\ current_user_id = 0 => resp'.body.orders = <<>>
     /\ req'.op = "ds_create_task"
          => /\ \A t \in tasks' \ tasks : t.user_id = current_user_id /\ current_user_id # 0
             /\ tasks \subseteq tasks'
             /\ resp'.body.ok = (tasks' # tasks)
             /\ current_user_id = 0 => resp'.body.ok = FALSE /\ tasks' = tasks
             /\ current_user_id # 0 => resp'.body.ok = TRUE
     /\ req'.op = "ds_create_order"
          => /\ \A o \in orders' \ orders : o.user_id = current_user_id /\ current_user_id # 0
             /\ orders \subseteq orders'
             /\ resp'.body.ok = (orders' # orders)
             /\ current_user_id = 0 => resp'.body.ok = FALSE /\ orders' = orders
             /\ current_user_id # 0 => resp'.body.ok = TRUE
     /\ req'.op = "logout" => current_user_id' = 0
     /\ req'.op \in {"ds_get_tasks", "ds_get_orders", "ds_create_task", "ds_create_order"}
          => current_user_id' = current_user_id]_vars

\* the second user lists their tasks while the first user's task is stored: one task comes back
C22_Witness ==
  /\ req.op = "ds_get_tasks" /\ resp.op = "ds_get_tasks"
  /\ current_user_id = 2
  /\ Len(resp.body.tasks) = 1
  /\ \E t \in tasks : t.user_id = 1

\* a create after logout: answered False while a user and a task are stored
C22_WitnessLoggedOut ==
  /\ req.op = "ds_create_task" /\ resp = Returned("ds_create_task", FALSE)
  /\ current_user_id = 0 /\ users # {} /\ tasks # {}

\* C27: delete_task of the local facade removes the task and returns True exactly when a
\* task with that id is stored and its owner is the user logged in; when no such task is
\* stored, when it belongs to another user, or when nobody is logged in, it returns False
\* and every stored task stays as it is
C27_DeletesOwnTaskOnly ==
  [][req'.op = "ds_delete_task"
       => IF \E t \in tasks : t.id = req'.id /\ t.user_id = current_user_id /\ current_user_id # 0
          THEN /\ resp'.body.ok = TRUE
               /\ tasks' = {t \in tasks : t.id # req'.id}
               /\ tasks' # tasks
          ELSE /\ resp'.body.ok = FALSE
               /\ tasks' = tasks]_vars

\* the second user asked for the deletion of the first user's task and was answered False
C27_Witness ==
  /\ req.op = "ds_delete_task" /\ resp = Returned("ds_delete_task", FALSE)
  /\ current_user_id = 2
  /\ \E t \in tasks : t.id = req.id /\ t.user_id = 1

\* the HTTP call the client made last is the one call of the operation that returned last,
\* and it failed: the connection was refused, or the response did not come in time
OwnCallFailed(op) ==
  api_client.ret.op = op /\ api_client.http.call = op /\ api_client.http.net # "ok"

C28_SessionConsistent ==
  /\ api_client.pc = "idle"
  /\ api_client.ret.op \in {"login", "register"}
  /\ api_client.ret.value.ok = TRUE
  => /\ api_client.token # NoToken
     /\ api_client.user_id # 0
     /\ api_client.user_id = api_client.token.user_id

\* C29: a login of the remote facade that returns failure, because the credentials were
\* refused, because the call failed, or because the profile could not be fetched after a
\* 200, returns with the token and the user_id the client held when login was called
C29_FailedLoginKeepsSession ==
  /\ api_client.pc = "idle"
  /\ api_client.ret.op = "login"
  /\ api_client.ret.value.ok = FALSE
  => session = api_client.was

\* the token register returned with its 201 when it stored the user
RegisterToken(u) ==
  [user_id |-> u.id, exp |-> u.created_at + TOKEN_HOURS,
   sig |-> Sign(u.id, u.created_at + TOKEN_HOURS, SECRET_KEY)]

\* C26: after register has stored a user and returned token t1, and a login with the
\* user's email and a wrong password was answered 401, a login with the right password is
\* answered 200 with a token that is valid for that user and differs from t1, whatever
\* time has passed since the register
C26_LoginTokenDiffers ==
  [][/\ req.op = "login" /\ resp.status = 401
     /\ req'.op = "login" /\ resp'.status = 200
     /\ req'.data.email = req.data.email
     => \A u \in users :
          u.email = req'.data.email
            => /\ resp'.body.token.user_id = u.id
               /\ jwt_decode(resp'.body.token, SECRET_KEY, req'.at) = "ok"
               /\ resp'.body.token # RegisterToken(u)]_vars

\* each facade has registered its account, with success
BothRegistered ==
  /\ \E u \in users : u.email = RemoteAccount.email
  /\ \E u \in users : u.email = LocalAccount.email

\* C24: the remote and the local facade are interchangeable: after each has registered an
\* account and, without a login, was asked to create a task, both creations have the same
\* outcome; asked to list the tasks, both return as many tasks; and both hold equivalent
\* sessions, logged in or not
C24_FacadesInterchangeable ==
  BothRegistered /\ api_client.pc = "idle"
    => /\ api_client.ret.op = "create_task" /\ resp.op = "ds_create_task"
            => api_client.ret.value.ok = resp.body.ok
       /\ api_client.ret.op = "get_tasks" /\ resp.op = "ds_get_tasks"
            => Len(api_client.ret.value.tasks) = Len(resp.body.tasks)
       /\ (api_client.user_id # 0) = (current_user_id # 0)

\* C25: in the desktop client every database call made for the window (login, register,
\* list, create, delete) runs on a thread other than the UI thread, and every step that
\* touches a widget runs on the UI thread
C25_CallsOffTheUiThread ==
  /\ gui.ran.call \in {"login", "register", "get_tasks", "create_task", "delete_task"}
       => gui.ran.thread # "ui"
  /\ gui.ran.widgets => gui.ran.thread = "ui"

====
